---------------------------- MODULE Spec2Model ----------------------------
(***************************************************************************)
(* A model of the Hyperfy plugin of eliza-3d-hyperfy-starter:              *)
(*   - the chat subscription of HyperfyService (service.ts), which turns   *)
(*     batches of chat messages into calls of the message handler;         *)
(*   - AgentControls (controls.ts): the button states, the navigation      *)
(*     tick and the random walk.                                           *)
(* The service state is the record svc, the state of one AgentControls     *)
(* instance is the record ctl; every method is an operator from records    *)
(* to records, and an action applies one method to the current state.      *)
(***************************************************************************)
EXTENDS Integers, Sequences, FiniteSets, TLC

VARIABLES
    svc,          \* the fields of HyperfyService the chat path reads and writes
    chat,         \* the chat subscription: listener, handler calls, last batch
    now,          \* Date.now()
    ctl,          \* the fields of AgentControls, its buttons and its timers
    pose,         \* world.entities.player: the embodiment and its pose, as last read
    last          \* the last call of the controls or event of the world, and its result

vars == <<svc, chat, now, ctl, pose, last>>

-----------------------------------------------------------------------------
(* Bounds of the model. *)

MaxTime == 3          \* the clock runs from 1 to MaxTime
MaxBatch == 2         \* the longest message batch delivered
MaxSessions == 2      \* connects in one behaviour

-----------------------------------------------------------------------------
(***************************************************************************)
(* Chat messages.  A message carries an id (a string; NoId is a missing or *)
(* empty id) and createdAt, an ISO date string: stampKind is "iso" for a   *)
(* date that parses to the instant at, "bad" for a string that does not    *)
(* parse, "none" for a missing createdAt.  An id names one message, so a   *)
(* message's createdAt never changes between batches.                      *)
(***************************************************************************)

NoId == ""

NaN == -1             \* the number NaN, which is no instant

Messages ==
    { [id |-> "m1", stampKind |-> "iso",  at |-> 2],
      [id |-> "m2", stampKind |-> "iso",  at |-> 3],
      [id |-> "m3", stampKind |-> "none", at |-> 0],
      [id |-> NoId, stampKind |-> "iso",  at |-> 3] }

MsgIds == { m.id : m \in Messages } \ {NoId}

Batches == UNION { [1..n -> Messages] : n \in 0..MaxBatch }

Outcomes == {"resolved", "rejected", "threw"}

\* msg.createdAt ? new Date(msg.createdAt).getTime() : 0
MessageTimestamp(msg) ==
    CASE msg.stampKind = "none" -> 0
      [] msg.stampKind = "bad"  -> NaN
      [] OTHER                  -> msg.at

\* A faulty variant of IsHistorical, letting through a message created at the
\* instant of the connect.
IsHistoricalOrEqualDispatched(ts, connectionTime) ==
    ts = 0 \/ ts = NaN \/ ts < connectionTime

\* !messageTimestamp || messageTimestamp <= this.connectionTime
IsHistorical(ts, connectionTime) ==
    ts = 0 \/ ts = NaN \/ ts <= connectionTime

\* A faulty variant of MarkProcessed, which does not record the id.
MarkProcessedForgotten(processed, id) == processed

\* this.processedMsgIds.add(msgIdStr) of a newly found message
MarkProcessed(processed, id) == processed \cup {id}

\* msgs.forEach of step 1: the processed set and newMessagesFound after
\* messages i..Len(msgs), starting from (processed, found).
RECURSIVE IdentifyNew(_, _, _, _, _)
IdentifyNew(msgs, i, processed, found, connectionTime) ==
    IF i > Len(msgs)
    THEN [processed |-> processed, found |-> found]
    ELSE LET msg == msgs[i]
         IN  IF IsHistorical(MessageTimestamp(msg), connectionTime)
             THEN IdentifyNew(msgs, i + 1,
                      IF msg.id # NoId /\ msg.id \notin processed
                      THEN processed \cup {msg.id}
                      ELSE processed,
                      found, connectionTime)
             ELSE IF msg.id # NoId /\ msg.id \notin processed
                  THEN IdentifyNew(msgs, i + 1, MarkProcessed(processed, msg.id),
                                   Append(found, msg), connectionTime)
                  ELSE IdentifyNew(msgs, i + 1, processed, found, connectionTime)

\* A faulty variant of Dispatch, awaiting each call before the next and
\* stopping at the first that fails: the calls up to the first failure.
RECURSIVE UpToFirstFailure(_, _)
UpToFirstFailure(found, outcome) ==
    IF found = <<>> THEN <<>>
    ELSE IF outcome[Head(found).id] # "resolved" THEN <<Head(found)>>
    ELSE <<Head(found)>> \o UpToFirstFailure(Tail(found), outcome)

DispatchStoppingAtFailure(found, processed, outcome) ==
    LET called == UpToFirstFailure(found, outcome)
    IN  [i \in 1..Len(called) |->
            [id |-> called[i].id, marked |-> called[i].id \in processed,
             outcome |-> outcome[called[i].id]]]

\* newMessagesFound.forEach(async msg => await handleMessage(msg)): the calls
\* of the handler, in order; each call's failure stays in its own promise.
\* marked: the id is in processedMsgIds when the handler is called.
Dispatch(found, processed, outcome) ==
    [i \in 1..Len(found) |->
        [id |-> found[i].id, marked |-> found[i].id \in processed,
         outcome |-> outcome[found[i].id]]]


-----------------------------------------------------------------------------
(***************************************************************************)
(* AgentControls: button states (controls.ts).                             *)
(***************************************************************************)

\* The keys the constructor creates (commonKeys), as far as the model's
\* operations touch them, and a key setKey creates on first use.
CommonKeys == {"keyW", "keyA", "keyS", "keyD", "shiftLeft", "controlLeft"}
LateKeys == {"key1"}
AllKeys == CommonKeys \cup LateKeys

createButtonState == [down |-> FALSE, pressed |-> FALSE, released |-> FALSE]

NoEdges == [k \in AllKeys |-> 0]

\* The edges written since the running call began: a record of the call, kept
\* beside the state to count "exactly once".
BeginCall(c) == [c EXCEPT !.pressEdges = NoEdges, !.releaseEdges = NoEdges]

\* A faulty variant of SetKey, writing an edge whether or not the key changes.
SetKeyEdgeEveryCall(c, keyName, isDown) ==
    LET c1 == IF keyName \in DOMAIN c.keys THEN c
              ELSE [c EXCEPT !.keys = (keyName :> createButtonState) @@ c.keys]
    IN  [c1 EXCEPT !.keys[keyName] =
                      [down |-> isDown, pressed |-> isDown, released |-> ~isDown],
                   !.pressEdges[keyName] = IF isDown THEN @ + 1 ELSE @,
                   !.releaseEdges[keyName] = IF isDown THEN @ ELSE @ + 1]

\* A faulty variant of SetKey, leaving the opposite edge flag as it was.
SetKeyKeepingOppositeEdge(c, keyName, isDown) ==
    LET c1 == IF keyName \in DOMAIN c.keys THEN c
              ELSE [c EXCEPT !.keys = (keyName :> createButtonState) @@ c.keys]
        state == c1.keys[keyName]
        edged == IF isDown /\ ~state.down
                 THEN [state EXCEPT !.pressed = TRUE]
                 ELSE IF ~isDown /\ state.down
                      THEN [state EXCEPT !.released = TRUE]
                      ELSE state
    IN  [c1 EXCEPT !.keys[keyName] = [edged EXCEPT !.down = isDown],
                   !.pressEdges[keyName] =
                       IF isDown /\ ~state.down THEN @ + 1 ELSE @,
                   !.releaseEdges[keyName] =
                       IF ~isDown /\ state.down THEN @ + 1 ELSE @]

\* setKey: the button state is created on first use; an edge is written
\* when down changes.
SetKey(c, keyName, isDown) ==
    LET c1 == IF keyName \in DOMAIN c.keys THEN c
              ELSE [c EXCEPT !.keys = (keyName :> createButtonState) @@ c.keys]
        state == c1.keys[keyName]
        edged == IF isDown /\ ~state.down
                 THEN [state EXCEPT !.pressed = TRUE, !.released = FALSE]
                 ELSE IF ~isDown /\ state.down
                      THEN [state EXCEPT !.released = TRUE, !.pressed = FALSE]
                      ELSE state
    IN  [c1 EXCEPT !.keys[keyName] = [edged EXCEPT !.down = isDown],
                   !.pressEdges[keyName] =
                       IF isDown /\ ~state.down THEN @ + 1 ELSE @,
                   !.releaseEdges[keyName] =
                       IF ~isDown /\ state.down THEN @ + 1 ELSE @]

\* A faulty variant of PostLateUpdate, clearing only the keys the
\* constructor created.
PostLateUpdateOfCommonKeys(c) ==
    [c EXCEPT !.keys = [k \in DOMAIN c.keys |->
                           IF k \in CommonKeys
                           THEN [c.keys[k] EXCEPT !.pressed = FALSE, !.released = FALSE]
                           ELSE c.keys[k]]]

\* postLateUpdate: the frame's pass clearing pressed and released
PostLateUpdate(c) ==
    [c EXCEPT !.keys = [k \in DOMAIN c.keys |->
                           [c.keys[k] EXCEPT !.pressed = FALSE, !.released = FALSE]]]

-----------------------------------------------------------------------------
(***************************************************************************)
(* The embodiment: world.entities.player, its base, position, quaternion.  *)
(*   kind "noPlayer"  world.entities.player is missing                     *)
(*        "noBase"    player.base is missing                               *)
(*        "throws"    reading base.position throws                         *)
(*        "noPos"     position is missing or x, z are not numbers          *)
(*        "badY"      position.y alone is not a number                     *)
(*        "badQuat"   quaternion is missing or not numeric                 *)
(*        "nanPos"    position is numeric and NaN                          *)
(*        "nanQuat"   quaternion is numeric and NaN                        *)
(*        "ok"        position <<x, y, z>> and quaternion q are finite     *)
(***************************************************************************)

Origin == <<0, 0, 0>>
IdentityQuat == <<0, 0, 0, 1>>

PoseOf(kind, pos, q) == [kind |-> kind, pos |-> pos, q |-> q]

BrokenKinds ==
    {"noPlayer", "noBase", "throws", "noPos", "badY", "badQuat", "nanPos", "nanQuat"}

\* Finite poses: positions <<x, y, z>> and quaternions, not normalised (the
\* tick normalises): the identity faces -Z, <<0, 1, 0, 1>> faces -X,
\* <<0, 1, 0, 0>> faces +Z, <<1, 0, 0, 1>> looks straight up, and the zero
\* quaternion normalises to the identity.
FinitePoses ==
    { PoseOf("ok", <<0, 0, 0>>, <<0, 0, 0, 1>>),
      PoseOf("ok", <<0, 0, 0>>, <<0, 1, 0, 1>>),
      PoseOf("ok", <<0, 4, 1>>, <<0, 0, 0, 1>>),
      PoseOf("ok", <<0, 0, 3>>, <<0, 1, 0, 0>>),
      PoseOf("ok", <<0, 0, 3>>, <<1, 0, 0, 1>>),
      PoseOf("ok", <<0, 0, 0>>, <<0, 0, 0, 0>>) }

Poses == { PoseOf(k, Origin, IdentityQuat) : k \in BrokenKinds } \cup FinitePoses

\* The poses the world presents to the controls in the state machine below;
\* the operators are defined, and the properties quantify, over all of Poses.
WorldPoses ==
    { PoseOf(k, Origin, IdentityQuat) : k \in {"noPlayer", "badY", "nanPos", "nanQuat"} }
    \cup { PoseOf("ok", <<0, 0, 0>>, <<0, 0, 0, 1>>),
           PoseOf("ok", <<0, 0, 0>>, <<0, 1, 0, 1>>),
           PoseOf("ok", <<0, 4, 1>>, <<0, 0, 0, 1>>),
           PoseOf("ok", <<0, 0, 3>>, <<0, 1, 0, 0>>) }

\* A navigation target or a navigateTo argument: a point of the XZ plane,
\* NaN (from a NaN position), or none.
NoTarget == [kind |-> "none", x |-> 0, z |-> 0]
NaNTarget == [kind |-> "nan", x |-> 0, z |-> 0]
Point(x, z) == [kind |-> "point", x |-> x, z |-> z]

Targets == { Point(0, 1), Point(3, 0) }

NoNavKeys == [forward |-> FALSE, backward |-> FALSE, left |-> FALSE, right |-> FALSE]

NoReason == "null"

-----------------------------------------------------------------------------
(***************************************************************************)
(* AgentControls: navigation and random walk.  setInterval and setTimeout  *)
(* are the counts of live timers (navIntervals, walkIntervals,             *)
(* walkTimeouts); an interval id field is TRUE when it holds a handle.     *)
(***************************************************************************)

NAVIGATION_STOP_DISTANCE == 1
RANDOM_WALK_DEFAULT_INTERVAL == 5000
RANDOM_WALK_DEFAULT_MAX_DISTANCE == 7

\* clearInterval(id); id = null
ClearNavInterval(c) ==
    IF c.navigationIntervalId
    THEN [c EXCEPT !.navIntervals = @ - 1, !.navigationIntervalId = FALSE]
    ELSE c

ClearWalkInterval(c) ==
    IF c.randomWalkIntervalId
    THEN [c EXCEPT !.walkIntervals = @ - 1, !.randomWalkIntervalId = FALSE]
    ELSE c

\* The five setKey(..., false) of stopNavigation.
ReleaseMovementKeys(c) ==
    SetKey(SetKey(SetKey(SetKey(SetKey(c, "keyW", FALSE), "keyA", FALSE),
                         "keyS", FALSE), "keyD", FALSE), "shiftLeft", FALSE)

RECURSIVE StopNavigation(_, _)
RECURSIVE StopRandomWalk(_, _)

\* A faulty variant of stopNavigation, storing the reason when nothing is
\* stopped.
StopNavigationStoringEveryReason(c, reason) ==
    IF c.isNavigating \/ c.navigationIntervalId
    THEN LET c1 == [ClearNavInterval([c EXCEPT !.stopReason = reason])
                       EXCEPT !.isNavigating = FALSE, !.navigationTarget = NoTarget]
             c2 == [ReleaseMovementKeys(c1) EXCEPT !.currentNavKeys = NoNavKeys]
         IN  IF reason # "random walk tick"
             THEN StopRandomWalk(c2, "navigation stopped")
             ELSE c2
    ELSE [c EXCEPT !.stopReason = reason]

\* A faulty variant of stopNavigation, which leaves the target set.
StopNavigationKeepingTarget(c, reason) ==
    IF c.isNavigating \/ c.navigationIntervalId
    THEN LET c1 == [ClearNavInterval([c EXCEPT !.stopReason = reason])
                       EXCEPT !.isNavigating = FALSE]
             c2 == [ReleaseMovementKeys(c1) EXCEPT !.currentNavKeys = NoNavKeys]
         IN  IF reason # "random walk tick"
             THEN StopRandomWalk(c2, "navigation stopped")
             ELSE c2
    ELSE c

\* stopNavigation(reason)
StopNavigation(c, reason) ==
    IF c.isNavigating \/ c.navigationIntervalId
    THEN LET c1 == [ClearNavInterval([c EXCEPT !.stopReason = reason])
                       EXCEPT !.isNavigating = FALSE, !.navigationTarget = NoTarget]
             c2 == [ReleaseMovementKeys(c1) EXCEPT !.currentNavKeys = NoNavKeys]
         IN  IF reason # "random walk tick"
             THEN StopRandomWalk(c2, "navigation stopped")
             ELSE c2
    ELSE c

\* A faulty variant of stopRandomWalk, which does not cancel the interval.
StopRandomWalkKeepingInterval(c, reason) ==
    IF ~c.isWalkingRandomly /\ ~c.randomWalkIntervalId
    THEN c
    ELSE LET c1 == [c EXCEPT !.isWalkingRandomly = FALSE]
         IN  IF reason # "navigation stopped"
             THEN StopNavigation(c1, "random walk stopped")
             ELSE c1

\* A faulty variant of stopRandomWalk, leaving the navigation leg alone.
StopRandomWalkKeepingLeg(c, reason) ==
    IF ~c.isWalkingRandomly /\ ~c.randomWalkIntervalId
    THEN c
    ELSE [ClearWalkInterval(c) EXCEPT !.isWalkingRandomly = FALSE]

\* stopRandomWalk(reason)
StopRandomWalk(c, reason) ==
    IF ~c.isWalkingRandomly /\ ~c.randomWalkIntervalId
    THEN c
    ELSE LET c1 == [ClearWalkInterval(c) EXCEPT !.isWalkingRandomly = FALSE]
         IN  IF reason # "navigation stopped"
             THEN StopNavigation(c1, "random walk stopped")
             ELSE c1

RECURSIVE StopNavigationCalls(_, _)
RECURSIVE StopRandomWalkCalls(_, _)

\* The calls of stopNavigation and stopRandomWalk that one call of
\* stopNavigation(reason) makes, itself included: it calls stopRandomWalk
\* after it has cleared its flag and its interval.
StopNavigationCalls(c, reason) ==
    IF (c.isNavigating \/ c.navigationIntervalId) /\ reason # "random walk tick"
    THEN 1 + StopRandomWalkCalls(
                 [c EXCEPT !.isNavigating = FALSE, !.navigationIntervalId = FALSE],
                 "navigation stopped")
    ELSE 1

\* The same for one call of stopRandomWalk(reason).
StopRandomWalkCalls(c, reason) ==
    IF ~c.isWalkingRandomly /\ ~c.randomWalkIntervalId
    THEN 1
    ELSE IF reason # "navigation stopped"
         THEN 1 + StopNavigationCalls(
                      [c EXCEPT !.isWalkingRandomly = FALSE,
                                !.randomWalkIntervalId = FALSE],
                      "random walk stopped")
         ELSE 1

\* The checks of navigateTo before it starts: the reason it stops with, or
\* NoReason when the pose passes (position x and z, quaternion x, y, z, w
\* are numbers; NaN is a number).
NavigateToRefusal(p) ==
    CASE p.kind = "noPlayer" -> "error - player missing"
      [] p.kind = "noBase"   -> "error - player base missing"
      [] p.kind = "throws"   -> "error - exception checking player state"
      [] p.kind = "noPos"    -> "error - invalid position values"
      [] p.kind = "badQuat"  -> "error - invalid quaternion values"
      [] OTHER               -> NoReason

\* setInterval(() => this._navigationTick(), ...) when no interval is held
StartNavInterval(c) ==
    IF ~c.navigationIntervalId
    THEN [c EXCEPT !.navigationIntervalId = TRUE, !.navIntervals = @ + 1]
    ELSE c

\* A faulty variant of navigateTo, which does not stop the navigation under
\* way and arms one more interval.
NavigateToKeepingInterval(c, p, target) ==
    IF NavigateToRefusal(p) # NoReason
    THEN StopNavigation(c, NavigateToRefusal(p))
    ELSE [c EXCEPT !.navigationTarget = target, !.isNavigating = TRUE,
                   !.stopReason = NoReason, !.currentNavKeys = NoNavKeys,
                   !.navigationIntervalId = TRUE, !.navIntervals = @ + 1]

\* navigateTo(x, z), finding the pose p
NavigateTo(c, p, target) ==
    IF NavigateToRefusal(p) # NoReason
    THEN StopNavigation(c, NavigateToRefusal(p))
    ELSE StartNavInterval(
             [StopNavigation(c, "starting new navigation")
                 EXCEPT !.navigationTarget = target, !.isNavigating = TRUE,
                        !.stopReason = NoReason, !.currentNavKeys = NoNavKeys])

\* new THREE.Vector3(0, 0, -1).applyQuaternion(q.normalize()).setY(0): the
\* horizontal forward vector <<x, z>>, up to a positive factor (what
\* normalize() then removes).  normalize() turns the zero quaternion into
\* the identity.
ForwardWorld(q0) ==
    LET q == IF q0 = <<0, 0, 0, 0>> THEN IdentityQuat ELSE q0
        x == q[1]
        y == q[2]
        z == q[3]
        w == q[4]
    IN  << -2 * (x * z + w * y), -(w * w + z * z - x * x - y * y) >>

\* this._navigationTarget.clone().sub(playerPosition).setY(0)
DirectionWorld(p, target) == << target.x - p.pos[1], target.z - p.pos[3] >>

Dot(a, b) == a[1] * b[1] + a[2] * b[2]
LengthSq(a) == Dot(a, a)

\* crossVectors(forwardWorld, directionWorld).y, for horizontal <<x, z>>
CrossY(a, b) == a[2] * b[1] - a[1] * b[2]

\* A faulty variant of TickRefusal, not looking for the base of the player.
TickRefusalWithoutBase(p) ==
    CASE p.kind = "noPlayer" -> "tick error - player missing"
      [] p.kind = "throws"   -> "tick error - exception accessing player state"
      [] p.kind \in {"noPos", "badY"} -> "tick error - invalid position values"
      [] p.kind = "badQuat"  -> "tick error - invalid quaternion values"
      [] OTHER               -> NoReason

\* The checks of the tick on the pose: position x, y, z and quaternion
\* x, y, z, w are numbers.
TickRefusal(p) ==
    CASE p.kind = "noPlayer" -> "tick error - player missing"
      [] p.kind = "noBase"   -> "tick error - player base missing"
      [] p.kind = "throws"   -> "tick error - exception accessing player state"
      [] p.kind \in {"noPos", "badY"} -> "tick error - invalid position values"
      [] p.kind = "badQuat"  -> "tick error - invalid quaternion values"
      [] OTHER               -> NoReason

\* A faulty variant of ReachedTarget, measuring the distance in space.
ReachedTargetIn3D(p, target) ==
    /\ p.kind # "nanPos"
    /\ target.kind = "point"
    /\ LengthSq(DirectionWorld(p, target)) + p.pos[2] * p.pos[2]
          <= NAVIGATION_STOP_DISTANCE * NAVIGATION_STOP_DISTANCE

\* distanceXZ <= NAVIGATION_STOP_DISTANCE, false when a coordinate is NaN
ReachedTarget(p, target) ==
    /\ p.kind # "nanPos"
    /\ target.kind = "point"
    /\ LengthSq(DirectionWorld(p, target))
          <= NAVIGATION_STOP_DISTANCE * NAVIGATION_STOP_DISTANCE

\* forwardWorld is NaN or shorter than the tick accepts
ForwardInvalid(p) ==
    p.kind = "nanQuat" \/ ForwardWorld(p.q) = <<0, 0>>

\* directionWorld is NaN or shorter than the tick accepts
DirectionInvalid(p, target) ==
    \/ p.kind = "nanPos"
    \/ target.kind # "point"
    \/ DirectionWorld(p, target) = <<0, 0>>

\* A faulty variant of HoldPosition, keeping the snapshot of the keys.
HoldPositionKeepingSnapshot(c) ==
    SetKey(SetKey(SetKey(SetKey(c, "keyW", FALSE), "keyA", FALSE),
                  "keyD", FALSE), "keyS", FALSE)

\* A faulty variant of HoldPosition, leaving keyW as it is.
HoldPositionKeepingForward(c) ==
    [SetKey(SetKey(SetKey(c, "keyA", FALSE), "keyD", FALSE), "keyS", FALSE)
        EXCEPT !.currentNavKeys = NoNavKeys]

\* "Holding position": the four setKey(..., false) and the snapshot reset.
HoldPosition(c) ==
    [SetKey(SetKey(SetKey(SetKey(c, "keyW", FALSE), "keyA", FALSE),
                   "keyD", FALSE), "keyS", FALSE)
        EXCEPT !.currentNavKeys = NoNavKeys]

\* cos(forwardThreshold)^2 for forwardThreshold = PI / 18, as a fraction
COS2_FORWARD_NUM == 96985
COS2_FORWARD_DEN == 100000

\* A faulty variant of DesiredKeys, moving forward at every angle.
DesiredKeysAlwaysForward(f, d) ==
    LET dot == Dot(f, d)
        ff == LengthSq(f) * LengthSq(d)
        signedNegative == CrossY(f, d) < 0
        overForward == dot < 0
                       \/ dot * dot * COS2_FORWARD_DEN < COS2_FORWARD_NUM * ff
    IN  [forward |-> TRUE, backward |-> FALSE,
         left |-> overForward /\ signedNegative,
         right |-> overForward /\ ~signedNegative]

\* The keys the tick wants for forward vector f and direction d.
\* angleTo(f, d) > PI/4 iff cos < sqrt(1/2); > PI/18 iff cos < cos(PI/18).
DesiredKeys(f, d) ==
    LET dot == Dot(f, d)
        ff == LengthSq(f) * LengthSq(d)
        signedNegative == CrossY(f, d) < 0
        overTurn == dot < 0 \/ 2 * dot * dot < ff
        overForward == dot < 0
                       \/ dot * dot * COS2_FORWARD_DEN < COS2_FORWARD_NUM * ff
    IN  IF overTurn
        THEN [forward |-> FALSE, backward |-> FALSE,
              left |-> signedNegative, right |-> ~signedNegative]
        ELSE [forward |-> TRUE, backward |-> FALSE,
              left |-> overForward /\ signedNegative,
              right |-> overForward /\ ~signedNegative]

\* A faulty variant of ApplyKeys, writing forward, left and right on every
\* tick, whatever the snapshot says.
ApplyKeysEveryTick(c, desired) ==
    LET c1 == [SetKey(c, "keyW", desired.forward)
                  EXCEPT !.currentNavKeys.forward = desired.forward]
        c2 == [SetKey(c1, "keyA", desired.left)
                  EXCEPT !.currentNavKeys.left = desired.left]
        c3 == [SetKey(c2, "keyD", desired.right)
                  EXCEPT !.currentNavKeys.right = desired.right]
        c4 == IF c3.currentNavKeys.backward
              THEN [SetKey(c3, "keyS", FALSE)
                       EXCEPT !.currentNavKeys.backward = FALSE]
              ELSE c3
    IN  SetKey(c4, "shiftLeft", FALSE)

\* "Apply Keys": write the keys that differ from the snapshot, drop backward,
\* clear the modifier.
ApplyKeys(c, desired) ==
    LET c1 == IF desired.forward # c.currentNavKeys.forward
              THEN [SetKey(c, "keyW", desired.forward)
                       EXCEPT !.currentNavKeys.forward = desired.forward]
              ELSE c
        c2 == IF desired.left # c1.currentNavKeys.left
              THEN [SetKey(c1, "keyA", desired.left)
                       EXCEPT !.currentNavKeys.left = desired.left]
              ELSE c1
        c3 == IF desired.right # c2.currentNavKeys.right
              THEN [SetKey(c2, "keyD", desired.right)
                       EXCEPT !.currentNavKeys.right = desired.right]
              ELSE c2
        c4 == IF c3.currentNavKeys.backward
              THEN [SetKey(c3, "keyS", FALSE)
                       EXCEPT !.currentNavKeys.backward = FALSE]
              ELSE c3
    IN  SetKey(c4, "shiftLeft", FALSE)

\* _navigationTick
NavigationTick(c, p) ==
    IF ~c.isNavigating \/ c.navigationTarget = NoTarget
    THEN ClearNavInterval(c)
    ELSE IF TickRefusal(p) # NoReason
    THEN StopNavigation(c, TickRefusal(p))
    ELSE IF ReachedTarget(p, c.navigationTarget)
    THEN StopNavigation(c, "reached target")
    ELSE IF ForwardInvalid(p) \/ DirectionInvalid(p, c.navigationTarget)
    THEN HoldPosition(c)
    ELSE ApplyKeys(c, DesiredKeys(ForwardWorld(p.q),
                                  DirectionWorld(p, c.navigationTarget)))

\* Bounds of the random walk in the model.
MaxWalkTimeouts == 1      \* pending "first tick" timeouts of startRandomWalk

\* <<interval, maxDistance>> a caller starts a random walk with
WalkSettings ==
    { <<RANDOM_WALK_DEFAULT_INTERVAL, RANDOM_WALK_DEFAULT_MAX_DISTANCE>>, <<1000, 0>> }

\* Offsets <<x, z>> a leg may draw: cos(a) * r, sin(a) * r with
\* r = Math.random() * maxDistance, so r < maxDistance, or r = 0.
OffsetGrid == { <<0, 0>>, <<0, 3>> }
WalkOffsets(maxDistance) ==
    { o \in OffsetGrid : o = <<0, 0>> \/ LengthSq(o) < maxDistance * maxDistance }

StartRandomWalk(c, intervalMs, maxDistance) ==
    LET c1 == IF c.isWalkingRandomly THEN StopRandomWalk(c, "restarting") ELSE c
    IN  [c1 EXCEPT !.isWalkingRandomly = TRUE,
                   !.randomWalkIntervalMs = intervalMs,
                   !.randomWalkMaxDistance = maxDistance,
                   !.randomWalkIntervalId = TRUE,
                   !.walkIntervals = @ + 1,
                   !.walkTimeouts = @ + 1]

\* The position a leg starts from: the player's, when x, y, z are numbers,
\* else DEFAULT_POSITION.
WalkPositionKnown(p) == p.kind \in {"ok", "badQuat", "nanQuat", "nanPos"}

\* A faulty variant of LegTarget, starting every leg from DEFAULT_POSITION.
LegTargetFromOrigin(p, o) ==
    Point(Origin[1] + o[1], Origin[3] + o[2])

\* The target of a leg that draws offset o.
LegTarget(p, o) ==
    IF p.kind = "nanPos" THEN NaNTarget
    ELSE IF WalkPositionKnown(p) THEN Point(p.pos[1] + o[1], p.pos[3] + o[2])
    ELSE Point(Origin[1] + o[1], Origin[3] + o[2])

\* _randomWalkTick, drawing offset o
RandomWalkTick(c, p, o) ==
    IF ~c.isWalkingRandomly THEN c
    ELSE NavigateTo(c, p, LegTarget(p, o))

-----------------------------------------------------------------------------
(***************************************************************************)
(* AgentControls: jump and crouch.  jumpResets is the queue of pending     *)
(* reset timeouts of jump(), each the instant it is due at; the timeouts   *)
(* all have the same delay, so they fire in the order they were set.       *)
(***************************************************************************)

JUMP_COOLDOWN == 1000     \* _jumpCooldown
JUMP_DURATION == 800      \* the delay of the reset timeout of jump()

\* Faulty variants of JumpRefusal: one forgets the cooldown, one forgets the
\* jump in flight.
JumpRefusalWithoutCooldown(c, p, t) ==
    IF p.kind = "noPlayer" THEN "player missing"
    ELSE IF c.isJumping THEN "already jumping"
    ELSE NoReason

JumpRefusalWithoutFlight(c, p, t) ==
    IF p.kind = "noPlayer" THEN "player missing"
    ELSE IF t - c.lastJumpTime < JUMP_COOLDOWN THEN "on cooldown"
    ELSE NoReason

\* The early returns of jump() at time t = Date.now(): why it does nothing,
\* or NoReason when the jump is accepted.
JumpRefusal(c, p, t) ==
    IF p.kind = "noPlayer" THEN "player missing"
    ELSE IF c.isJumping THEN "already jumping"
    ELSE IF t - c.lastJumpTime < JUMP_COOLDOWN THEN "on cooldown"
    ELSE NoReason

\* What the world offers a jump: player.jump ("native"), world.tween
\* ("tween"), neither ("none"), or one of them throwing ("throws").
JumpCapabilities == {"native", "tween", "none", "throws"}

\* What an accepted jump does to the world, inside its try block: reading
\* base.position for the tween throws when the base is missing.
JumpEffect(c, p, t, cap) ==
    IF JumpRefusal(c, p, t) # NoReason THEN "nothing"
    ELSE IF cap = "throws" THEN "threw"
    ELSE IF cap = "native" THEN "native jump"
    ELSE IF p.kind \in {"noBase", "throws"} THEN "threw"
    ELSE IF cap = "tween" THEN "tween"
    ELSE "no impulse"

\* jump() at time t
Jump(c, p, t) ==
    IF JumpRefusal(c, p, t) # NoReason THEN c
    ELSE [c EXCEPT !.isJumping = TRUE,
                   !.lastJumpTime = t,
                   !.jumpResets = Append(@, t + JUMP_DURATION)]

\* The reset timeout of jump() fires.
JumpReset(c) ==
    [c EXCEPT !.isJumping = FALSE, !.jumpResets = Tail(@)]

\* _validatePlayerState: player and base are there, position and quaternion
\* are a Vector3 and a Quaternion without NaN.  (When reading the base
\* throws, the exception leaves the caller, which has changed nothing yet.)
ValidatePlayerState(p) == p.kind = "ok"

\* toggleCrouch()
ToggleCrouch(c, p) ==
    IF ~ValidatePlayerState(p) THEN c
    ELSE LET c1 == [c EXCEPT !.isCrouching = ~@]
             c2 == SetKey(c1, "controlLeft", c1.isCrouching)
         IN  IF c2.isJumping /\ c2.isCrouching
             THEN SetKey([c2 EXCEPT !.isCrouching = FALSE], "controlLeft", FALSE)
             ELSE c2

-----------------------------------------------------------------------------
(***************************************************************************)
(* The controls as a state machine: the public methods called from the     *)
(* outside, the timer callbacks, the frame's clearing pass, and the world  *)
(* moving the embodiment.                                                  *)
(***************************************************************************)

InitControls ==
    [ keys |-> [k \in CommonKeys |-> createButtonState],
      navigationTarget |-> NoTarget,
      isNavigating |-> FALSE,
      navigationIntervalId |-> FALSE,
      currentNavKeys |-> NoNavKeys,
      stopReason |-> NoReason,
      isWalkingRandomly |-> FALSE,
      randomWalkIntervalId |-> FALSE,
      randomWalkIntervalMs |-> RANDOM_WALK_DEFAULT_INTERVAL,
      randomWalkMaxDistance |-> RANDOM_WALK_DEFAULT_MAX_DISTANCE,
      navIntervals |-> 0,
      walkIntervals |-> 0,
      walkTimeouts |-> 0,
      isJumping |-> FALSE,
      isCrouching |-> FALSE,
      lastJumpTime |-> 0,
      jumpResets |-> <<>>,
      pressEdges |-> NoEdges,
      releaseEdges |-> NoEdges ]

\* Every reason the controls themselves stop navigation with.
InternalStopReasons ==
    { "starting new navigation", "reached target", "random walk stopped" }
    \cup { NavigateToRefusal(p) : p \in Poses }
    \cup { TickRefusal(p) : p \in Poses }

\* Reasons a caller of stopNavigation or stopRandomWalk may pass.
NavStopReasons == {"commanded", "random walk tick"}
WalkStopReasons == {"commanded", "navigation stopped"}

StopReasons == (InternalStopReasons \cup NavStopReasons) \ {NoReason}

Called(op, target, res) == [op |-> op, target |-> target, res |-> res]

NoCall == [op |-> "none", target |-> NoTarget, res |-> "none"]

\* What a tick did: skipped (not navigating), error, reached, hold or steer.
TickResult(c, p) ==
    IF ~c.isNavigating \/ c.navigationTarget = NoTarget THEN "skipped"
    ELSE IF TickRefusal(p) # NoReason THEN "error"
    ELSE IF ReachedTarget(p, c.navigationTarget) THEN "reached"
    ELSE IF ForwardInvalid(p) \/ DirectionInvalid(p, c.navigationTarget) THEN "hold"
    ELSE "steer"

\* The embodiment is the world's to move, turn, remove and restore: each
\* call that reads it finds some pose p, kept in pose as the pose last read.
DoNavigateTo ==
    \E t \in Targets, p \in WorldPoses :
        /\ ctl' = NavigateTo(BeginCall(ctl), p, t)
        /\ last' = Called("navigateTo", t, "none")
        /\ pose' = p
        /\ UNCHANGED <<svc, chat, now>>

DoStopNavigation ==
    \E r \in NavStopReasons :
        /\ ctl' = StopNavigation(BeginCall(ctl), r)
        /\ last' = Called("stopNavigation", NoTarget,
                         IF last.op = "stopNavigation" THEN "again" ELSE "first")
        /\ UNCHANGED <<svc, chat, now, pose>>

DoStartRandomWalk ==
    \E w \in WalkSettings :
        /\ ctl.walkTimeouts < MaxWalkTimeouts
        /\ ctl' = StartRandomWalk(BeginCall(ctl), w[1], w[2])
        /\ last' = Called("startRandomWalk", NoTarget, "none")
        /\ UNCHANGED <<svc, chat, now, pose>>

\* startRandomWalk is called while a random walk is running, the timeout
\* of an earlier start still pending or not.
DoRestartRandomWalk ==
    \E w \in WalkSettings :
        /\ ctl.isWalkingRandomly
        /\ ctl.walkTimeouts <= MaxWalkTimeouts
        /\ ctl' = StartRandomWalk(BeginCall(ctl), w[1], w[2])
        /\ last' = Called("startRandomWalk", NoTarget, "restart")
        /\ UNCHANGED <<svc, chat, now, pose>>

DoStopRandomWalk ==
    \E r \in WalkStopReasons :
        /\ ctl' = StopRandomWalk(BeginCall(ctl), r)
        /\ last' = Called("stopRandomWalk", NoTarget, "none")
        /\ UNCHANGED <<svc, chat, now, pose>>

\* The navigation interval fires.
NavigationTimer ==
    \E p \in WorldPoses :
        /\ ctl.navIntervals > 0
        /\ ctl' = NavigationTick(BeginCall(ctl), p)
        /\ last' = Called("navigationTick", ctl.navigationTarget, TickResult(ctl, p))
        /\ pose' = p
        /\ UNCHANGED <<svc, chat, now>>

\* The random-walk interval fires.
RandomWalkTimer ==
    \E o \in WalkOffsets(ctl.randomWalkMaxDistance), p \in WorldPoses :
        /\ ctl.walkIntervals > 0
        /\ ctl' = RandomWalkTick(BeginCall(ctl), p, o)
        /\ last' = Called("randomWalkTick", LegTarget(p, o),
                          IF ctl.isWalkingRandomly THEN "leg" ELSE "skipped")
        /\ pose' = p
        /\ UNCHANGED <<svc, chat, now>>

\* The 100 ms timeout of startRandomWalk fires.
RandomWalkFirstTick ==
    \E o \in WalkOffsets(ctl.randomWalkMaxDistance), p \in WorldPoses :
        /\ ctl.walkTimeouts > 0
        /\ ctl' = RandomWalkTick([BeginCall(ctl) EXCEPT !.walkTimeouts = @ - 1],
                                 p, o)
        /\ last' = Called("randomWalkTick", LegTarget(p, o),
                          IF ctl.isWalkingRandomly THEN "leg" ELSE "skipped")
        /\ pose' = p
        /\ UNCHANGED <<svc, chat, now>>

\* Keys a caller outside the controls writes (move, useItem).
CallerKeys == {"keyS"}

DoSetKey ==
    \E k \in CallerKeys, isDown \in BOOLEAN :
        /\ ctl' = SetKey(BeginCall(ctl), k, isDown)
        /\ last' = Called("setKey", NoTarget, "none")
        /\ UNCHANGED <<svc, chat, now, pose>>

\* Keys a caller writes through HyperfyService.move while the controls
\* navigate.
MoveKeys == {"keyW", "keyA", "keyD"}

\* move(key, isDown): this.controls.setKey(key, isDown)
DoMove ==
    \E k \in MoveKeys, isDown \in BOOLEAN :
        /\ ctl' = SetKey(BeginCall(ctl), k, isDown)
        /\ last' = Called("move", NoTarget, "none")
        /\ UNCHANGED <<svc, chat, now, pose>>

DoPostLateUpdate ==
    /\ ctl' = PostLateUpdate(BeginCall(ctl))
    /\ last' = Called("postLateUpdate", NoTarget, "none")
    /\ UNCHANGED <<svc, chat, now, pose>>

\* Jump and crouch as a state machine.  The clock Date.now() starts at Epoch,
\* which is no less than a cooldown after the instant 0 of _lastJumpTime, and
\* advances in steps of JumpClockStep; a timeout fires at or after the
\* instant it is due at.
MaxJumpTicks == 6         \* steps of the clock in one behaviour

JumpClockStep == 200

Epoch == JUMP_COOLDOWN

\* The poses jump and toggleCrouch find.
BodyPoses ==
    { PoseOf(k, Origin, IdentityQuat) : k \in {"noPlayer", "noBase", "nanPos", "ok"} }

DoJump ==
    \E p \in BodyPoses, cap \in JumpCapabilities :
        /\ ctl' = Jump(BeginCall(ctl), p, now)
        /\ last' = Called("jump", NoTarget, JumpEffect(ctl, p, now, cap))
        /\ pose' = p
        /\ UNCHANGED <<svc, chat, now>>

\* The reset timeout of the oldest pending jump fires.
JumpResetTimer ==
    /\ ctl.jumpResets # <<>>
    /\ now >= Head(ctl.jumpResets)
    /\ ctl' = JumpReset(BeginCall(ctl))
    /\ last' = Called("jumpReset", NoTarget, "none")
    /\ UNCHANGED <<svc, chat, now, pose>>

DoToggleCrouch ==
    \E p \in BodyPoses :
        /\ ctl' = ToggleCrouch(BeginCall(ctl), p)
        /\ last' = Called("toggleCrouch", NoTarget, "none")
        /\ pose' = p
        /\ UNCHANGED <<svc, chat, now>>

JumpClockTick ==
    /\ now < Epoch + MaxJumpTicks * JumpClockStep
    /\ now' = now + JumpClockStep
    /\ UNCHANGED <<svc, chat, ctl, pose, last>>

\* A caller writes a key the constructor did not create (useItem, move).
DoSetLateKey ==
    \E k \in LateKeys, isDown \in BOOLEAN :
        /\ ctl' = SetKey(BeginCall(ctl), k, isDown)
        /\ last' = Called("setKey", NoTarget, "none")
        /\ UNCHANGED <<svc, chat, now, pose>>

-----------------------------------------------------------------------------
(***************************************************************************)
(* HyperfyService: the connection and the chat subscription (service.ts).  *)
(*   svc.world            0 (null) or the number of the world created      *)
(*   svc.connectionTime   0 (null) or Date.now() at the end of connect     *)
(*   svc.pc               "init" while connect awaits world.init,          *)
(*                        "closing" while handleDisconnect awaits,         *)
(*                        "failing" while it awaits inside connect's catch,*)
(*                        "reclosing" while connect awaits its disconnect  *)
(*                        (the one call in flight, where calls do not      *)
(*                        overlap)                                         *)
(*   svc.wsUrl, svc.currentWorldId, svc.controls                           *)
(*                        0 (null) or the number of the world they are for *)
(*   svc.timers           the timers of the service that are armed         *)
(*   svc.worlds           what the service did to each world it created    *)
(*   chat.session         the connect calls that have ended                *)
(*   chat.subscribed      the subscription callback is registered          *)
(*   chat.handled         the handler calls of this session, per id        *)
(*   chat.batch           the batch the callback is running on, and what   *)
(*                        it led to; NoBatch outside the callback          *)
(***************************************************************************)

MaxHandled == 2       \* handler calls counted per id

NoWorld == 0

NoPlayerPose == PoseOf("noPlayer", Origin, IdentityQuat)
SpawnPose == PoseOf("ok", Origin, IdentityQuat)

\* Entities of the world, as the 'entityAdded' event and world.entities.items
\* present them: id (NoId when missing), data.type ("none" when missing),
\* data.name (NoName when missing or empty), and the position and rotation
\* extractEntityState finds on base or data ("none" when it finds none).
EntityIds == {"agent", "e2"}

NoName == ""

EntityOf(id, type, name, position, rotation) ==
    [id |-> id, type |-> type, name |-> name,
     position |-> position, rotation |-> rotation]

\* The agent's own player entity, world.entities.player.
AgentEntity == EntityOf("agent", "player", "Agent", "p0", "r0")

Entities ==
    { AgentEntity,
      EntityOf("agent", "player", "Renamed", "p1", "r0"),
      EntityOf("e2", "player", "ann", "p0", "r0"),
      EntityOf("e2", "player", NoName, "p1", "none"),
      EntityOf("e2", "app", "box", "none", "none"),
      EntityOf("e2", "none", NoName, "p0", "r0"),
      EntityOf(NoId, "player", "ann", "p0", "r0") }

\* A Map without entries, and Map.delete
EmptyMap == [id \in {} |-> id]

MapDelete(map, id) == [i \in DOMAIN map \ {id} |-> map[i]]

\* null, for wsUrl, _currentWorldId and controls
NoUrl == 0
NoWorldId == 0
NoControls == 0

\* The timers of the service: the simulation tick timeout, the entity
\* update interval and the appearance polling interval.
ServiceTimers == {"simulation", "entityUpdates", "appearance"}

\* The worlds connect can create, numbered in the order of creation, and
\* what the service has done to each: created it (made), called
\* network.disconnect() and destroy() on it (counted), and the functions
\* registered on its entities for the three entity events (listeners).
WorldIds == 1..MaxSessions

InitWorld ==
    [made |-> FALSE, disconnects |-> 0, destroys |-> 0, listeners |-> {}]

\* null, for tickIntervalId
NoTimer == 0

\* Appearance polling.  Each call of startAppearancePolling makes a callback
\* f with a pollingTasks of its own, which the runs of f share.  A run of f
\* is suspended at its first await, of runtime.getEntityById.  svc.poll holds
\* the pollingTasks of the polling started last (tasks), the runs of its f
\* that are suspended (live), the suspended runs of callbacks whose polling
\* was stopped or replaced (stale) and the pollingTasks of those
\* (staleTasks).  svc.lastPoll tells of the run that resumed last whether
\* its polling had been stopped and what it called and wrote.
MaxPolls == 1         \* runs of a polling callback suspended at the same time

NoTasks == [avatar |-> FALSE, name |-> FALSE]

NoPolling == [tasks |-> NoTasks, live |-> 0, stale |-> 0, staleTasks |-> NoTasks]

NoPollRun == [stale |-> FALSE, calls |-> {}]

\* this.runtime.character.name
CharacterName == "Eliza"

\* The simulation loop.  Each call of startSimulation makes a tickLoop of its
\* own, named by a number; the loop re-arms its timeout from its callback, so
\* it has one timeout pending or none, and the handle of that timeout is
\* named by the loop.  svc.tickIntervalId is the handle the service holds,
\* svc.simArmed the loops with a timeout pending, svc.simStopped those of
\* them that were running or armed when the simulation was last stopped.
\*
\* svc.suspended counts the calls suspended at an await where calls overlap:
\* connect at world.init (init), handleDisconnect at network.disconnect()
\* (closing), and the same inside the disconnect connect begins with
\* (reclosing).  svc.binds counts the functions made by .bind(this): every call of bind
\* returns a function of its own, named here by its number.
InitService ==
    [ world |-> NoWorld, isConnectedState |-> FALSE, connectionTime |-> 0,
      processedMsgIds |-> {}, pc |-> "idle",
      currentEntities |-> EmptyMap, playerNamesMap |-> EmptyMap,
      wsUrl |-> NoUrl, currentWorldId |-> NoWorldId, controls |-> NoControls,
      timers |-> {}, binds |-> 0, worlds |-> [w \in WorldIds |-> InitWorld],
      suspended |-> [init |-> 0, closing |-> 0, reclosing |-> 0],
      tickIntervalId |-> NoTimer, simArmed |-> {}, simStopped |-> {},
      appearanceSet |-> FALSE, nameSet |-> FALSE,
      poll |-> NoPolling, lastPoll |-> NoPollRun ]

\* extractEntityState: the snapshot of an entity, named from the registry
\* when the entity is a player the registry knows.
ExtractEntityState(s, entity) ==
    [ id |-> entity.id,
      type |-> IF entity.type = "none" THEN "unknown" ELSE entity.type,
      name |-> IF /\ entity.type = "player"
                  /\ entity.id \in DOMAIN s.playerNamesMap
                  /\ s.playerNamesMap[entity.id] # NoName
               THEN s.playerNamesMap[entity.id]
               ELSE entity.name,
      position |-> entity.position,
      rotation |-> entity.rotation ]

\* A faulty variant of entityAddedListener, writing the name of every add
\* into the registry.
EntityAddedListenerRenaming(s, entity) ==
    IF entity.id = NoId THEN s
    ELSE LET s1 == IF entity.type = "player" /\ entity.name # NoName
                   THEN [s EXCEPT !.playerNamesMap = (entity.id :> entity.name) @@ @]
                   ELSE s
             s2 == [s1 EXCEPT !.currentEntities =
                                 (entity.id :> ExtractEntityState(s, entity)) @@ @]
         IN  s2

\* entityAddedListener
EntityAddedListener(s, entity) ==
    IF entity.id = NoId THEN s
    ELSE LET s1 == IF /\ entity.type = "player" /\ entity.name # NoName
                      /\ entity.id \notin DOMAIN s.playerNamesMap
                   THEN [s EXCEPT !.playerNamesMap = (entity.id :> entity.name) @@ @]
                   ELSE s
         IN  [s1 EXCEPT !.currentEntities =
                           (entity.id :> ExtractEntityState(s1, entity)) @@ @]

\* A faulty variant of entityRemovedListener, keeping the name.
EntityRemovedListenerKeepingName(s, entityId) ==
    IF entityId = NoId THEN s
    ELSE [s EXCEPT !.currentEntities = MapDelete(@, entityId)]

\* entityRemovedListener
EntityRemovedListener(s, entityId) ==
    IF entityId = NoId THEN s
    ELSE [s EXCEPT !.playerNamesMap = MapDelete(@, entityId),
                   !.currentEntities = MapDelete(@, entityId)]

\* No entity: the 'entityModified' event came without one and
\* world.entities.items has none under the id.
NoEntity == EntityOf(NoId, "none", NoName, "none", "none")

\* The changed data of an 'entityModified' event: the keys it carries, NoName
\* and "none" for a key it does not carry.
PatchOf(name, position, quaternion) ==
    [name |-> name, position |-> position, quaternion |-> quaternion]

Patches ==
    { PatchOf("Renamed", "none", "r1"),
      PatchOf(NoName, "p1", "none") }

\* The entity the listener makes up from a snapshot and the changed data,
\* { id, data: { ...existing, ...changedData } }: the snapshot holds its
\* rotation under 'rotation', so only the changed data can bring a quaternion.
MergedEntity(entityId, existing, changedData) ==
    EntityOf(entityId, existing.type,
             IF changedData.name # NoName THEN changedData.name ELSE existing.name,
             IF changedData.position # "none" THEN changedData.position
             ELSE existing.position,
             changedData.quaternion)

\* entityModifiedListener; fullEntity is the entity of the event or, without
\* one, the entity world.entities.items holds under the id (NoEntity when
\* there is neither).
EntityModifiedListener(s, entityId, changedData, fullEntity) ==
    IF entityId = NoId THEN s
    ELSE LET s1 == IF /\ changedData.name # NoName
                      /\ fullEntity # NoEntity
                      /\ fullEntity.type = "player"
                   THEN [s EXCEPT !.playerNamesMap =
                                     (entityId :> changedData.name) @@ @]
                   ELSE s
         IN  IF fullEntity # NoEntity
             THEN [s1 EXCEPT !.currentEntities =
                                (entityId :> ExtractEntityState(s1, fullEntity)) @@ @]
             ELSE IF entityId \in DOMAIN s1.currentEntities
             THEN [s1 EXCEPT !.currentEntities =
                      (entityId :> ExtractEntityState(s1,
                           MergedEntity(entityId, s1.currentEntities[entityId],
                                        changedData))) @@ @]
             ELSE s1

\* getEntityName: the registry first, then the snapshot, then the entity of
\* the world (item); NoName stands for null.
GetEntityName(s, entityId, item) ==
    IF entityId \in DOMAIN s.playerNamesMap THEN s.playerNamesMap[entityId]
    ELSE IF /\ entityId \in DOMAIN s.currentEntities
            /\ s.currentEntities[entityId].name # NoName
    THEN s.currentEntities[entityId].name
    ELSE item.name

\* connect, once the listeners are attached: both maps are cleared and
\* entityAddedListener runs on every entity of world.entities.items, which
\* holds the agent's player entity once the world has brought it.
InitialEntities(s, p) ==
    LET cleared == [s EXCEPT !.currentEntities = EmptyMap,
                             !.playerNamesMap = EmptyMap]
    IN  IF p.kind = "noPlayer" THEN cleared
        ELSE EntityAddedListener(cleared, AgentEntity)

NoBatch ==
    [ delivered |-> FALSE, msgs |-> <<>>, connected |-> FALSE, player |-> FALSE,
      ready |-> FALSE, connectionTime |-> 0, before |-> {}, calls |-> <<>> ]

InitChat ==
    [ subscribed |-> FALSE, session |-> 0,
      handled |-> [id \in MsgIds |-> 0], batch |-> NoBatch ]

\* The world connect creates next.
NextWorld(s) == Cardinality({ w \in WorldIds : s.worlds[w].made }) + 1

\* connect from its assignments of wsUrl and _currentWorldId to its await of
\* world.init: the world n is created and gets its AgentControls; the
\* configuration is named by the number of the world it is for.
ConnectCreate(s, n) ==
    [s EXCEPT !.wsUrl = n, !.currentWorldId = n, !.world = n, !.controls = n,
              !.appearanceSet = FALSE, !.nameSet = FALSE,
              !.worlds[n].made = TRUE]

\* connect where the listeners are attached: off and on are each called with
\* a function bound for the call.
AttachListeners(s) ==
    [s EXCEPT !.binds = @ + 2,
              !.worlds[s.world].listeners = (@ \ {s.binds + 1}) \cup {s.binds + 2}]

\* The off calls of handleDisconnect, with a function bound for the call.
DetachListeners(s) ==
    IF s.world = NoWorld THEN s
    ELSE [s EXCEPT !.binds = @ + 1,
                   !.worlds[s.world].listeners = @ \ {s.binds + 1}]

\* clearTimeout(this.tickIntervalId), when the service holds a handle
ClearTickTimeout(s) ==
    IF s.tickIntervalId = NoTimer THEN s
    ELSE [s EXCEPT !.simArmed = @ \ {s.tickIntervalId},
                   !.simStopped = @ \ {s.tickIntervalId}]

\* The name of a new loop: the least number no pending timeout bears.
NewLoop(s) ==
    CHOOSE n \in 1..(Cardinality(s.simArmed) + 1) :
        /\ n \notin s.simArmed
        /\ \A m \in 1..(n - 1) : m \in s.simArmed

\* startSimulation: the timeout held is cleared and a new loop armed.
StartSimulation(s) ==
    LET s1 == ClearTickTimeout(s)
    IN  [s1 EXCEPT !.tickIntervalId = NewLoop(s1),
                   !.simArmed = @ \cup {NewLoop(s1)}]

\* stopSimulation, and the same lines at the end of handleDisconnect: the
\* timeout held is cleared and the handle dropped.  The loops whose timeout
\* is still pending afterwards have been stopped and are armed all the same.
StopSimulation(s) ==
    LET s1 == ClearTickTimeout(s)
    IN  [s1 EXCEPT !.tickIntervalId = NoTimer, !.simStopped = s1.simArmed]

\* stopAppearancePolling, and the same lines at the end of handleDisconnect:
\* the interval is cleared; the runs of its callback that are suspended
\* stay suspended.
StopAppearancePolling(s) ==
    [s EXCEPT !.timers = @ \ {"appearance"},
              !.poll = [tasks |-> NoTasks, live |-> 0,
                        stale |-> @.stale + @.live,
                        staleTasks |-> IF @.live > 0 THEN @.tasks ELSE @.staleTasks]]

\* startAppearancePolling: the interval held is cleared; unless name and
\* avatar are both set, a new callback is made over a new pollingTasks and
\* an interval armed for it.  (The call f() that ends startAppearancePolling
\* is a first firing of that interval: up to its await f only reads.)
StartAppearancePolling(s) ==
    LET s1 == StopAppearancePolling(s)
    IN  IF s.appearanceSet /\ s.nameSet THEN s1
        ELSE [s1 EXCEPT !.timers = @ \cup {"appearance"},
                        !.poll.tasks = [avatar |-> s.appearanceSet,
                                        name |-> s.nameSet]]

\* handleDisconnect up to its await of world.network.disconnect(): nothing
\* to do when neither connected nor holding a world; otherwise the timers of
\* the service are stopped, the listeners taken off and the network told to
\* disconnect.
HandleDisconnectBegin(s) ==
    IF ~s.isConnectedState /\ s.world = NoWorld THEN s
    ELSE LET s1 == DetachListeners(
                       StopAppearancePolling(
                           StopSimulation([s EXCEPT !.isConnectedState = FALSE,
                                                    !.timers = {}])))
         IN  IF s.world = NoWorld THEN s1
             ELSE [s1 EXCEPT !.worlds[s.world].disconnects = @ + 1]

\* handleDisconnect after the await, to its end: the world the service holds
\* now is destroyed and the fields are cleared.
HandleDisconnectEnd(s) ==
    LET s1 == IF s.world = NoWorld THEN s
              ELSE [s EXCEPT !.worlds[s.world].destroys = @ + 1]
    IN  StopAppearancePolling(StopSimulation(
            [s1 EXCEPT !.world = NoWorld, !.controls = NoControls,
                       !.currentEntities = EmptyMap, !.playerNamesMap = EmptyMap,
                       !.wsUrl = NoUrl, !.appearanceSet = FALSE,
                       !.processedMsgIds = {},
                       !.connectionTime = 0, !.timers = {}]))

\* handleDisconnect from its call to its end, without regard to its await.
HandleDisconnect(s) ==
    IF ~s.isConnectedState /\ s.world = NoWorld THEN s
    ELSE HandleDisconnectEnd(HandleDisconnectBegin(s))

\* The ids connect and startChatSubscription put into processedMsgIds from
\* world.chat.msgs.
HistoryIds(history) == { m.id : m \in history } \ {NoId}

\* A faulty variant of CallbackReady, not waiting for the player entity.
CallbackReadyWithoutPlayer(s, p) ==
    s.world # NoWorld /\ s.connectionTime # 0

\* The guard of the subscription callback: world, chat, player and
\* connectionTime are there.
CallbackReady(s, p) ==
    s.world # NoWorld /\ p.kind # "noPlayer" /\ s.connectionTime # 0

CallsOf(calls, id) == Cardinality({ i \in DOMAIN calls : calls[i].id = id })

\* connect after world.init resolved, as far as isConnectedState = true.
ConnectSetup(s, p, history) ==
    [InitialEntities(AttachListeners(s), p)
        EXCEPT !.processedMsgIds = HistoryIds(history),
               !.isConnectedState = TRUE]

\* The steps at which connect can throw after it created the world, and the
\* service as the catch block finds it: world.init rejected, the setup of
\* the listeners threw after they were attached, or the start of the entity
\* updates threw after the simulation was started.
FailSteps == {"init", "listeners", "timers"}

ConnectUpTo(s, step, p, history) ==
    IF step = "init" THEN s
    ELSE IF step = "listeners" THEN InitialEntities(AttachListeners(s), p)
    ELSE [StartSimulation(ConnectSetup(s, p, history))
             EXCEPT !.timers = {"simulation"}]

\* connect after world.init resolved, to its end.  A connect that finds the
\* world gone skips the listeners, clears processedMsgIds and throws on
\* this.world.chat; its catch block calls handleDisconnect, which has no
\* world to wait for.
ConnectAfterInit(s, p, history, t) ==
    IF s.world = NoWorld
    THEN HandleDisconnect([s EXCEPT !.processedMsgIds = {}])
    ELSE StartAppearancePolling(
             [StartSimulation(ConnectSetup(s, p, history))
                 EXCEPT !.timers = ServiceTimers \ {"appearance"},
                        !.connectionTime = t])

\* connect is called: a connected service disconnects first and waits for
\* that ("reclosing"); otherwise connect creates the world and awaits
\* world.init ("init").
ConnectBegin ==
    /\ ~chat.batch.delivered
    /\ svc.pc = "idle"
    /\ chat.session < MaxSessions
    /\ IF svc.isConnectedState
       THEN /\ svc' = [HandleDisconnectBegin(svc) EXCEPT !.pc = "reclosing"]
            /\ UNCHANGED pose
       ELSE /\ svc' = [ConnectCreate(svc, NextWorld(svc)) EXCEPT !.pc = "init"]
            /\ pose' = NoPlayerPose
    /\ UNCHANGED <<chat, now, ctl, last>>

\* The disconnect inside connect ends; connect creates the new world and
\* awaits world.init.
ConnectReopen ==
    /\ ~chat.batch.delivered
    /\ svc.pc = "reclosing"
    /\ svc' = [ConnectCreate(HandleDisconnectEnd(svc), NextWorld(svc))
                  EXCEPT !.pc = "init"]
    /\ pose' = NoPlayerPose
    /\ UNCHANGED <<chat, now, ctl, last>>

\* connect after world.init resolved, to its end.
ConnectFinish ==
    \E history \in SUBSET Messages :
        /\ ~chat.batch.delivered
        /\ svc.pc = "init"
        /\ svc' = [ConnectAfterInit(svc, pose, history, now) EXCEPT !.pc = "idle"]
        /\ chat' = [chat EXCEPT !.subscribed = TRUE, !.session = @ + 1,
                                !.handled = [id \in MsgIds |-> 0]]
        /\ UNCHANGED <<now, ctl, pose, last>>

\* connect throws after it created the world: its catch block calls
\* handleDisconnect and waits for it.
ConnectFail ==
    \E step \in FailSteps, history \in SUBSET Messages :
        /\ ~chat.batch.delivered
        /\ svc.pc = "init"
        /\ step # "timers" => history = {}
        /\ svc' = [HandleDisconnectBegin(ConnectUpTo(svc, step, pose, history))
                      EXCEPT !.pc = "failing"]
        /\ UNCHANGED <<chat, now, ctl, pose, last>>

\* The handleDisconnect of the catch block ends and connect rethrows.
ConnectRejects ==
    /\ ~chat.batch.delivered
    /\ svc.pc = "failing"
    /\ svc' = [HandleDisconnectEnd(svc) EXCEPT !.pc = "idle"]
    /\ chat' = [chat EXCEPT !.session = @ + 1]
    /\ pose' = NoPlayerPose
    /\ UNCHANGED <<now, ctl, last>>

\* connect is called on a service that is not connected and
\* createNodeClientWorld throws: the catch block calls handleDisconnect,
\* which finds neither connection nor world, and connect rethrows.
ConnectFailCreate ==
    /\ ~chat.batch.delivered
    /\ svc.pc = "idle"
    /\ ~svc.isConnectedState
    /\ chat.session < MaxSessions
    /\ svc' = HandleDisconnect([svc EXCEPT !.wsUrl = NextWorld(svc),
                                           !.currentWorldId = NextWorld(svc),
                                           !.appearanceSet = FALSE,
                                           !.nameSet = FALSE])
    /\ chat' = [chat EXCEPT !.session = @ + 1]
    /\ UNCHANGED <<now, ctl, pose, last>>

\* disconnect(), stop() or the world's 'disconnect' event, up to the await.
Disconnect ==
    /\ ~chat.batch.delivered
    /\ svc.pc = "idle"
    /\ svc.isConnectedState
    /\ svc' = [HandleDisconnectBegin(svc) EXCEPT !.pc = "closing"]
    /\ UNCHANGED <<chat, now, ctl, pose, last>>

\* handleDisconnect resumes after its await and clears the service.
DisconnectFinish ==
    /\ ~chat.batch.delivered
    /\ svc.pc = "closing"
    /\ svc' = [HandleDisconnectEnd(svc) EXCEPT !.pc = "idle"]
    /\ pose' = NoPlayerPose
    /\ UNCHANGED <<chat, now, ctl, last>>

\* The entity listeners are attached by connect after world.init, for the
\* time the service is connected.
ListenersAttached(s) == s.isConnectedState /\ s.pc = "idle"

\* The snapshot brings the agent's player entity; the world emits
\* 'entityAdded' for it.
PlayerEnters ==
    /\ ~chat.batch.delivered
    /\ svc.world # NoWorld
    /\ pose.kind = "noPlayer"
    /\ pose' = SpawnPose
    /\ svc' = IF ListenersAttached(svc)
              THEN EntityAddedListener(svc, AgentEntity)
              ELSE svc
    /\ UNCHANGED <<chat, now, ctl, last>>

\* The world emits 'entityAdded'.
EntityAdded ==
    \E entity \in Entities :
        /\ ~chat.batch.delivered
        /\ ListenersAttached(svc)
        /\ svc' = EntityAddedListener(svc, entity)
        /\ last' = Called("entityAdded", NoTarget,
                          IF entity.id = NoId THEN "ignored"
                          ELSE IF EntityAddedListener(svc, entity) = svc THEN "again"
                          ELSE "added")
        /\ UNCHANGED <<chat, now, ctl, pose>>

\* The world emits 'entityRemoved'.
EntityRemoved ==
    \E entityId \in EntityIds \cup {NoId} :
        /\ ~chat.batch.delivered
        /\ ListenersAttached(svc)
        /\ svc' = EntityRemovedListener(svc, entityId)
        /\ last' = Called("entityRemoved", NoTarget,
                          IF entityId = NoId THEN "ignored"
                          ELSE IF EntityRemovedListener(svc, entityId) = svc THEN "absent"
                          ELSE "removed")
        /\ UNCHANGED <<chat, now, ctl, pose>>

\* The entities the world can hold under an id, or none.
ItemsOf(entityId) == { e \in Entities : e.id = entityId } \cup {NoEntity}

\* The world emits 'entityModified', with or without the entity.
EntityModified ==
    \E entityId \in EntityIds, changedData \in Patches :
      \E fullEntity \in ItemsOf(entityId) :
        /\ ~chat.batch.delivered
        /\ ListenersAttached(svc)
        /\ svc' = EntityModifiedListener(svc, entityId, changedData, fullEntity)
        /\ last' = Called("entityModified", NoTarget,
                          IF fullEntity # NoEntity THEN "entity"
                          ELSE IF entityId \in DOMAIN svc.currentEntities THEN "merged"
                          ELSE "untracked")
        /\ UNCHANGED <<chat, now, ctl, pose>>

(***************************************************************************)
(* Overlapping calls.  connect and handleDisconnect are async: while one   *)
(* call is suspended at an await, connect, disconnect, stop and the        *)
(* handler of the world's 'disconnect' event can be called again.  Each    *)
(* call runs from await to await on the fields of the service as they are  *)
(* then.  world.network.disconnect is taken to be there and asynchronous,  *)
(* as handleDisconnect provides for.                                       *)
(***************************************************************************)

MaxSuspended == 2     \* calls suspended at an await at the same time

SuspendedCalls(s) == s.suspended.init + s.suspended.closing + s.suspended.reclosing

Suspend(s, kind) == [s EXCEPT !.suspended[kind] = @ + 1]

Resume(s, kind) == [s EXCEPT !.suspended[kind] = @ - 1]

\* A world the service created and did not destroy.
Live(s, w) == s.worlds[w].made /\ s.worlds[w].destroys = 0

\* handleDisconnect is called: it returns at once when the service is
\* neither connected nor holding a world, runs to its end when there is no
\* world to wait for, and is suspended at network.disconnect() otherwise.
CallHandleDisconnect(s, kind) ==
    IF ~s.isConnectedState /\ s.world = NoWorld THEN s
    ELSE IF s.world = NoWorld THEN HandleDisconnect(s)
    ELSE Suspend(HandleDisconnectBegin(s), kind)

\* connect is called, whatever else is in flight.
SessConnect ==
    /\ SuspendedCalls(svc) < MaxSuspended
    /\ NextWorld(svc) + svc.suspended.reclosing <= MaxSessions
    /\ svc' = IF svc.isConnectedState /\ svc.world # NoWorld
              THEN Suspend(HandleDisconnectBegin(svc), "reclosing")
              ELSE LET s1 == HandleDisconnect(svc)
                   IN  Suspend(ConnectCreate(IF svc.isConnectedState THEN s1 ELSE svc,
                                             NextWorld(svc)), "init")
    /\ last' = Called("connect", NoTarget,
                      IF svc.suspended.init > 0 THEN "overlapping" ELSE "called")
    /\ UNCHANGED <<chat, now, ctl, pose>>

\* The disconnect connect began with ends; connect creates its world.
SessReconnectResumes ==
    /\ svc.suspended.reclosing > 0
    /\ LET s1 == HandleDisconnectEnd(Resume(svc, "reclosing"))
       IN  svc' = Suspend(ConnectCreate(s1, NextWorld(s1)), "init")
    /\ last' = Called("connect", NoTarget, "reopened")
    /\ UNCHANGED <<chat, now, ctl, pose>>

\* world.init resolves for a suspended connect.
SessInitResolves ==
    /\ svc.suspended.init > 0
    /\ svc' = ConnectAfterInit(Resume(svc, "init"), pose, {}, now)
    /\ last' = Called("connect", NoTarget,
                      IF svc.world = NoWorld THEN "rejected" ELSE "resolved")
    /\ UNCHANGED <<chat, now, ctl, pose>>

\* world.init rejects for a suspended connect: the catch block calls
\* handleDisconnect.
SessInitRejects ==
    /\ svc.suspended.init > 0
    /\ svc' = CallHandleDisconnect(Resume(svc, "init"), "closing")
    /\ last' = Called("connect", NoTarget, "rejected")
    /\ UNCHANGED <<chat, now, ctl, pose>>

\* disconnect(), stop() or the handler of a world's 'disconnect' event calls
\* handleDisconnect, whatever else is in flight.
SessDisconnect ==
    /\ SuspendedCalls(svc) < MaxSuspended
    /\ svc.isConnectedState \/ svc.world # NoWorld
    /\ svc' = CallHandleDisconnect(svc, "closing")
    /\ last' = Called("handleDisconnect", NoTarget,
                      IF svc.suspended.closing + svc.suspended.reclosing > 0
                      THEN "re-entered" ELSE "entered")
    /\ UNCHANGED <<chat, now, ctl, pose>>

\* A suspended handleDisconnect resumes after network.disconnect().
SessDisconnectResumes ==
    /\ svc.suspended.closing > 0
    /\ svc' = HandleDisconnectEnd(Resume(svc, "closing"))
    /\ last' = Called("handleDisconnect", NoTarget, "ended")
    /\ UNCHANGED <<chat, now, ctl, pose>>

\* What an event of world w does to the service: the listeners registered
\* on the world run, if there are any.
Emit(s, w, heard) == IF s.worlds[w].listeners = {} THEN s ELSE heard

\* A world the service created emits 'entityAdded'.
WorldEmitsEntityAdded ==
    \E w \in WorldIds, entity \in Entities :
        /\ svc.worlds[w].made
        /\ svc' = Emit(svc, w, EntityAddedListener(svc, entity))
        /\ last' = Called("entityAdded", NoTarget,
                          IF svc.worlds[w].listeners = {} THEN "unheard"
                          ELSE IF w = svc.world THEN "heard" ELSE "stale")
        /\ UNCHANGED <<chat, now, ctl, pose>>

\* A world the service created emits 'entityRemoved'.
WorldEmitsEntityRemoved ==
    \E w \in WorldIds, entityId \in EntityIds :
        /\ svc.worlds[w].made
        /\ svc' = Emit(svc, w, EntityRemovedListener(svc, entityId))
        /\ last' = Called("entityRemoved", NoTarget,
                          IF svc.worlds[w].listeners = {} THEN "unheard"
                          ELSE IF w = svc.world THEN "heard" ELSE "stale")
        /\ UNCHANGED <<chat, now, ctl, pose>>

\* The callback of the appearance polling begins a run, the interval
\* firing: with both tasks done it clears the interval; when player, player
\* id and network are ready it goes on to its first await; otherwise it
\* waits for the next firing.
AppearancePollFire(s, ready) ==
    IF s.poll.tasks.avatar /\ s.poll.tasks.name
    THEN [s EXCEPT !.timers = @ \ {"appearance"}]
    ELSE IF ready THEN [s EXCEPT !.poll.live = @ + 1]
    ELSE s

\* A suspended run of the polling callback resumes after getEntityById and
\* runs to its end: it starts the behaviour manager; unless its pollingTasks
\* has the name done it calls changeName, which throws without connection,
\* world or player and otherwise writes the name registry and sends the
\* name; unless the avatar is done, and the assets URL was ready, it calls
\* uploadCharacterAssets, which fails without world or player.  gen tells
\* whether the polling of the run was stopped meanwhile.
AppearancePollResume(s, gen, playerThere, assetsUrlReady, uploadOk) ==
    LET stale == gen = "stale"
        tasks == IF stale THEN s.poll.staleTasks ELSE s.poll.tasks
        nameDone == /\ ~tasks.name
                    /\ s.isConnectedState /\ s.world # NoWorld /\ playerThere
        avatarDone == /\ ~tasks.avatar /\ assetsUrlReady
                      /\ s.world # NoWorld /\ playerThere /\ uploadOk
        done == [avatar |-> tasks.avatar \/ avatarDone,
                 name |-> tasks.name \/ nameDone]
        s1 == IF nameDone
              THEN [s EXCEPT !.playerNamesMap = (AgentEntity.id :> CharacterName) @@ @,
                             !.nameSet = TRUE]
              ELSE s
        s2 == IF avatarDone THEN [s1 EXCEPT !.appearanceSet = TRUE] ELSE s1
        p1 == IF stale
              THEN [s.poll EXCEPT !.stale = @ - 1,
                                  !.staleTasks = IF s.poll.stale = 1 THEN NoTasks ELSE done]
              ELSE [s.poll EXCEPT !.live = @ - 1, !.tasks = done]
        calls == {"behaviorManager.start"}
                 \cup (IF nameDone THEN {"network.send entityModified"} ELSE {})
                 \cup (IF avatarDone THEN {"network.upload"} ELSE {})
    IN  [s2 EXCEPT !.poll = p1, !.lastPoll = [stale |-> stale, calls |-> calls]]

\* The interval of the appearance polling fires.
AppearancePollFires ==
    \E ready \in BOOLEAN :
        /\ ~chat.batch.delivered
        /\ "appearance" \in svc.timers
        /\ ready => /\ svc.world # NoWorld /\ pose.kind # "noPlayer"
                    /\ svc.poll.live + svc.poll.stale < MaxPolls
        /\ svc' = AppearancePollFire(svc, ready)
        /\ last' = Called("appearancePoll", NoTarget,
                          IF svc.poll.tasks.avatar /\ svc.poll.tasks.name THEN "done"
                          ELSE IF ready THEN "begun" ELSE "waiting")
        /\ UNCHANGED <<chat, now, ctl, pose>>

\* runtime.getEntityById resolves for a suspended run of a polling callback.
AppearancePollResumes ==
    \E gen \in {"live", "stale"}, assetsUrlReady \in BOOLEAN, uploadOk \in BOOLEAN :
        /\ ~chat.batch.delivered
        /\ svc.poll[gen] > 0
        /\ uploadOk => assetsUrlReady
        /\ svc' = AppearancePollResume(svc, gen, pose.kind # "noPlayer",
                                       assetsUrlReady, uploadOk)
        /\ last' = Called("appearancePoll", NoTarget, gen)
        /\ UNCHANGED <<chat, now, ctl, pose>>

\* What world.tick does in a tick of the loop, and what it leads to inside
\* the tick: it returns or throws, or the world emits 'disconnect' in it and
\* the handler calls handleDisconnect before it returns or throws.
TickOutcomes == {"ok", "throws"}
TickEvents == {"none", "disconnect"}

\* A faulty variant of TickLoop, which does not re-arm after world.tick threw.
TickLoopStoppingOnError(s, n, outcome, event) ==
    LET s0 == [s EXCEPT !.simArmed = @ \ {n}, !.simStopped = @ \ {n}]
    IN  IF s0.world = NoWorld \/ ~s0.isConnectedState
        THEN [ClearTickTimeout(s0) EXCEPT !.tickIntervalId = NoTimer,
                                          !.timers = @ \ {"simulation"}]
        ELSE LET s1 == IF event = "disconnect"
                       THEN CallHandleDisconnect(s0, "closing")
                       ELSE s0
             IN  IF s1.tickIntervalId # NoTimer /\ outcome # "throws"
                 THEN [s1 EXCEPT !.tickIntervalId = n,
                                 !.simArmed = @ \cup {n},
                                 !.simStopped =
                                     IF n \in s.simStopped \/ event = "disconnect"
                                     THEN @ \cup {n} ELSE @]
                 ELSE s1

\* A faulty variant of TickLoop, which re-arms whatever became of the handle.
TickLoopRearmingAlways(s, n, outcome, event) ==
    LET s0 == [s EXCEPT !.simArmed = @ \ {n}, !.simStopped = @ \ {n}]
    IN  IF s0.world = NoWorld \/ ~s0.isConnectedState
        THEN [ClearTickTimeout(s0) EXCEPT !.tickIntervalId = NoTimer,
                                          !.timers = @ \ {"simulation"}]
        ELSE LET s1 == IF event = "disconnect"
                       THEN CallHandleDisconnect(s0, "closing")
                       ELSE s0
             IN  [s1 EXCEPT !.tickIntervalId = n,
                            !.simArmed = @ \cup {n},
                            !.simStopped =
                                IF n \in s.simStopped \/ event = "disconnect"
                                THEN @ \cup {n} ELSE @]

\* tickLoop of the loop n, its timeout firing: without world or connection
\* it clears the timeout the service holds and ends; otherwise it calls
\* world.tick, catches what it throws, and arms its next timeout unless the
\* handle was dropped meanwhile.
TickLoop(s, n, outcome, event) ==
    LET s0 == [s EXCEPT !.simArmed = @ \ {n}, !.simStopped = @ \ {n}]
    IN  IF s0.world = NoWorld \/ ~s0.isConnectedState
        THEN [ClearTickTimeout(s0) EXCEPT !.tickIntervalId = NoTimer,
                                          !.timers = @ \ {"simulation"}]
        ELSE LET s1 == IF event = "disconnect"
                       THEN CallHandleDisconnect(s0, "closing")
                       ELSE s0
             IN  IF s1.tickIntervalId # NoTimer
                 THEN [s1 EXCEPT !.tickIntervalId = n,
                                 !.simArmed = @ \cup {n},
                                 !.simStopped =
                                     IF n \in s.simStopped \/ event = "disconnect"
                                     THEN @ \cup {n} ELSE @]
                 ELSE s1

\* The timeout of a simulation loop fires.
SimTickLoop ==
    \E n \in svc.simArmed, outcome \in TickOutcomes, event \in TickEvents :
        /\ event = "disconnect" => SuspendedCalls(svc) < MaxSuspended
        /\ svc' = TickLoop(svc, n, outcome, event)
        /\ last' = Called("tickLoop", NoTarget,
                          IF svc.world = NoWorld \/ ~svc.isConnectedState
                          THEN "skipped"
                          ELSE IF event = "disconnect" THEN "disconnected"
                          ELSE outcome)
        /\ UNCHANGED <<chat, now, ctl, pose>>

\* Poses and targets for the steering of the tick: the embodiment on the X
\* axis facing -Z, at planar angles of 0, about 9.5, 18.4 and 49.4 degrees
\* to the target (0, -6), on either side; and at the origin facing +Z, in
\* line with the target (0, 5).
SteeringPoses ==
    { PoseOf("ok", <<x, 0, 0>>, IdentityQuat) : x \in {0, 1, 2, -2, 7, -7} }
    \cup { PoseOf("ok", Origin, <<0, 1, 0, 0>>) }

SteeringTargets == { Point(0, -6), Point(0, 5) }

SteerNavigateTo ==
    \E t \in SteeringTargets, p \in SteeringPoses :
        /\ ctl' = NavigateTo(BeginCall(ctl), p, t)
        /\ last' = Called("navigateTo", t, "none")
        /\ pose' = p
        /\ UNCHANGED <<svc, chat, now>>

\* The navigation interval fires.
SteerTick ==
    \E p \in SteeringPoses :
        /\ ctl.navIntervals > 0
        /\ ctl' = NavigationTick(BeginCall(ctl), p)
        /\ last' = Called("navigationTick", ctl.navigationTarget, TickResult(ctl, p))
        /\ pose' = p
        /\ UNCHANGED <<svc, chat, now>>

\* The controls of the first world, as callers reach them: through
\* getWorld().controls, while the service holds that world.  (ctl is then
\* the AgentControls connect created for the first world; its timers are its
\* own.)
WorldStartRandomWalk ==
    /\ svc.world = 1
    /\ DoStartRandomWalk

ClockTick ==
    /\ ~chat.batch.delivered
    /\ now < MaxTime
    /\ now' = now + 1
    /\ UNCHANGED <<svc, chat, ctl, pose, last>>

\* The subscription callback runs on a batch; outcome is how the handler's
\* call ends for each message found.  The callback runs to completion:
\* nothing else happens until it has returned (ChatReturn).
ChatBatch ==
    \E msgs \in Batches :
      LET ready == CallbackReady(svc, pose)
          r == IdentifyNew(msgs, 1, svc.processedMsgIds, <<>>, svc.connectionTime)
      IN
      \E outcome \in [{ r.found[i].id : i \in DOMAIN r.found } -> Outcomes] :
        LET calls == IF ready THEN Dispatch(r.found, r.processed, outcome) ELSE <<>>
        IN  /\ chat.subscribed
            /\ ~chat.batch.delivered
            /\ \A id \in MsgIds : chat.handled[id] < MaxHandled
            /\ svc' = IF ready THEN [svc EXCEPT !.processedMsgIds = r.processed]
                      ELSE svc
            /\ chat' = [chat EXCEPT
                          !.handled = [id \in MsgIds |-> @[id] + CallsOf(calls, id)],
                          !.batch = [ delivered |-> TRUE, msgs |-> msgs,
                                      connected |-> svc.isConnectedState,
                                      player |-> pose.kind # "noPlayer",
                                      ready |-> ready,
                                      connectionTime |-> svc.connectionTime,
                                      before |-> svc.processedMsgIds,
                                      calls |-> calls ]]
            /\ UNCHANGED <<now, ctl, pose, last>>

\* The subscription callback returns.
ChatReturn ==
    /\ chat.batch.delivered
    /\ chat' = [chat EXCEPT !.batch = NoBatch]
    /\ UNCHANGED <<svc, now, ctl, pose, last>>

-----------------------------------------------------------------------------
(* The specifications. *)

InitChatSpec ==
    /\ svc = InitService
    /\ chat = InitChat
    /\ now = 1
    /\ ctl = InitControls
    /\ pose = NoPlayerPose
    /\ last = NoCall

NextChat ==
    \/ ConnectBegin
    \/ ConnectReopen
    \/ ConnectFinish
    \/ ConnectFail
    \/ ConnectRejects
    \/ ConnectFailCreate
    \/ Disconnect
    \/ DisconnectFinish
    \/ PlayerEnters
    \/ ClockTick
    \/ ChatBatch
    \/ ChatReturn

SpecChat == InitChatSpec /\ [][NextChat]_vars

\* The service with its entity listeners: sessions, and the world's entity
\* events while connected.
InitEntities ==
    /\ svc = InitService
    /\ chat = InitChat
    /\ now = 1
    /\ ctl = InitControls
    /\ pose = NoPlayerPose
    /\ last = NoCall

NextEntities ==
    \/ ConnectBegin
    \/ ConnectReopen
    \/ ConnectFinish
    \/ ConnectFail
    \/ ConnectRejects
    \/ ConnectFailCreate
    \/ Disconnect
    \/ DisconnectFinish
    \/ PlayerEnters
    \/ EntityAdded
    \/ EntityRemoved
    \/ EntityModified

SpecEntities == InitEntities /\ [][NextEntities]_vars

\* The service under overlapping calls of connect and handleDisconnect, and
\* the entity events of the worlds it created.
InitSession ==
    /\ svc = InitService
    /\ chat = InitChat
    /\ now = 1
    /\ ctl = InitControls
    /\ pose = NoPlayerPose
    /\ last = NoCall

NextSession ==
    \/ SessConnect
    \/ SessReconnectResumes
    \/ SessInitResolves
    \/ SessInitRejects
    \/ SessDisconnect
    \/ SessDisconnectResumes
    \/ WorldEmitsEntityAdded
    \/ WorldEmitsEntityRemoved

SpecSession == InitSession /\ [][NextSession]_vars

\* The service with its calls overlapping and its simulation loop running.
InitSim ==
    /\ svc = InitService
    /\ chat = InitChat
    /\ now = 1
    /\ ctl = InitControls
    /\ pose = NoPlayerPose
    /\ last = NoCall

NextSim ==
    \/ SessConnect
    \/ SessReconnectResumes
    \/ SessInitResolves
    \/ SessInitRejects
    \/ SessDisconnect
    \/ SessDisconnectResumes
    \/ SimTickLoop

SpecSim == InitSim /\ [][NextSim]_vars

\* The service, one session after the other, with its appearance polling.
InitPoll ==
    /\ svc = InitService
    /\ chat = InitChat
    /\ now = 1
    /\ ctl = InitControls
    /\ pose = NoPlayerPose
    /\ last = NoCall

NextPoll ==
    \/ ConnectBegin
    \/ ConnectReopen
    \/ ConnectFinish
    \/ Disconnect
    \/ DisconnectFinish
    \/ PlayerEnters
    \/ AppearancePollFires
    \/ AppearancePollResumes

SpecPoll == InitPoll /\ [][NextPoll]_vars

\* The controls steering towards a target from poses at chosen angles.
InitSteer ==
    /\ svc = InitService
    /\ chat = InitChat
    /\ now = 1
    /\ ctl = InitControls
    /\ pose = NoPlayerPose
    /\ last = NoCall

NextSteer ==
    \/ SteerNavigateTo
    \/ SteerTick
    \/ DoStopNavigation

SpecSteer == InitSteer /\ [][NextSteer]_vars

\* The steering of the tick with a caller of move writing the movement keys
\* between the ticks.
InitKeys ==
    /\ svc = InitService
    /\ chat = InitChat
    /\ now = 1
    /\ ctl = InitControls
    /\ pose = NoPlayerPose
    /\ last = NoCall

NextKeys ==
    \/ SteerNavigateTo
    \/ SteerTick
    \/ DoStopNavigation
    \/ DoMove

SpecKeys == InitKeys /\ [][NextKeys]_vars

\* The service and the controls of its first world: sessions one after the
\* other, navigation and random walks started through the world, and the
\* timers of the controls.
InitTeardown ==
    /\ svc = InitService
    /\ chat = InitChat
    /\ now = 1
    /\ ctl = InitControls
    /\ pose = NoPlayerPose
    /\ last = NoCall

NextTeardown ==
    \/ ConnectBegin
    \/ ConnectReopen
    \/ ConnectFinish
    \/ Disconnect
    \/ DisconnectFinish
    \/ WorldStartRandomWalk
    \/ NavigationTimer
    \/ RandomWalkTimer
    \/ RandomWalkFirstTick

SpecTeardown == InitTeardown /\ [][NextTeardown]_vars

InitNav ==
    /\ svc = InitService
    /\ chat = InitChat
    /\ now = 1
    /\ ctl = InitControls
    /\ pose = SpawnPose
    /\ last = NoCall

NextNav ==
    \/ DoNavigateTo
    \/ DoStopNavigation
    \/ DoStartRandomWalk
    \/ DoStopRandomWalk
    \/ NavigationTimer
    \/ RandomWalkTimer
    \/ RandomWalkFirstTick
    \/ DoSetKey
    \/ DoPostLateUpdate

SpecNav == InitNav /\ [][NextNav]_vars

\* The random walk with its restarts, its timers and the navigation tick.
InitWalk ==
    /\ svc = InitService
    /\ chat = InitChat
    /\ now = 1
    /\ ctl = InitControls
    /\ pose = SpawnPose
    /\ last = NoCall

NextWalk ==
    \/ DoStartRandomWalk
    \/ DoRestartRandomWalk
    \/ DoStopRandomWalk
    \/ DoStopNavigation
    \/ RandomWalkTimer
    \/ RandomWalkFirstTick
    \/ NavigationTimer

SpecWalk == InitWalk /\ [][NextWalk]_vars

InitJump ==
    /\ svc = InitService
    /\ chat = InitChat
    /\ now = Epoch
    /\ ctl = InitControls
    /\ pose = SpawnPose
    /\ last = NoCall

NextJump ==
    \/ DoJump
    \/ JumpResetTimer
    \/ DoToggleCrouch
    \/ JumpClockTick
    \/ DoSetLateKey
    \/ DoPostLateUpdate

SpecJump == InitJump /\ [][NextJump]_vars

-----------------------------------------------------------------------------
(***************************************************************************)
(* Properties of the chat subscription, over SpecChat.  chat.batch is the  *)
(* last batch delivered: its messages, whether the service was connected   *)
(* and the agent's player entity present, connectionTime and               *)
(* processedMsgIds as the callback found them, and the handler calls it    *)
(* made.                                                                   *)
(***************************************************************************)

\* C1: within one connection session the handler is called at most once per
\* message id, whatever batches are delivered, and the id is in
\* processedMsgIds when the handler is called.
C1_AtMostOncePerId ==
    /\ \A id \in MsgIds : chat.handled[id] <= 1
    /\ \A k \in DOMAIN chat.batch.calls :
          /\ chat.batch.calls[k].marked
          /\ chat.batch.calls[k].id \in svc.processedMsgIds

\* A batch brings again, with a stamp after the connect, an id the handler
\* was called for earlier in the session, and calls nothing.
C1_Witness ==
    /\ chat.batch.delivered /\ chat.batch.connected /\ chat.batch.player
    /\ chat.batch.calls = <<>>
    /\ \E i \in DOMAIN chat.batch.msgs :
          LET m == chat.batch.msgs[i]
          IN  /\ m.id # NoId
              /\ m.stampKind = "iso" /\ m.at > chat.batch.connectionTime
              /\ chat.handled[m.id] = 1

C3_DispatchedIffNewAndUnseen ==
    (chat.batch.delivered /\ chat.batch.connected) =>
        \A i \in DOMAIN chat.batch.msgs :
            LET m == chat.batch.msgs[i]
                after == m.stampKind = "iso" /\ m.at > chat.batch.connectionTime
                unseen == /\ m.id \notin chat.batch.before
                          /\ \A j \in 1..(i - 1) : chat.batch.msgs[j].id # m.id
                earlier == \E j \in 1..(i - 1) : chat.batch.msgs[j].id = m.id
            IN  \/ earlier
                \/ (after /\ unseen) <=>
                      (\E k \in DOMAIN chat.batch.calls : chat.batch.calls[k].id = m.id)

\* C3, amended: in a connected session, a message of a delivered batch is
\* handed to the handler if and only if the agent's player entity is present
\* when the batch is delivered, the message carries an id, its createdAt is
\* strictly after the connect, and its id is not yet in processedMsgIds;
\* each such message is handed over once, while the batch is processed.
C3_DispatchedIffPlayerIdNewAndUnseen ==
    (chat.batch.delivered /\ chat.batch.connected) =>
        /\ \A i \in DOMAIN chat.batch.msgs :
              LET m == chat.batch.msgs[i]
                  after == m.stampKind = "iso" /\ m.at > chat.batch.connectionTime
                  first == \A j \in 1..(i - 1) : chat.batch.msgs[j].id # m.id
                  due == /\ chat.batch.player
                         /\ m.id # NoId
                         /\ after
                         /\ m.id \notin chat.batch.before
                  calls == { k \in DOMAIN chat.batch.calls :
                                chat.batch.calls[k].id = m.id }
              IN  first => Cardinality(calls) = (IF due THEN 1 ELSE 0)
        /\ \A k \in DOMAIN chat.batch.calls :
              \E i \in DOMAIN chat.batch.msgs :
                  chat.batch.msgs[i].id = chat.batch.calls[k].id

\* A batch delivered with the player present holds a message that is due and
\* one that is not: the handler is called for the first alone.
C3_Witness ==
    /\ chat.batch.delivered /\ chat.batch.connected /\ chat.batch.player
    /\ Len(chat.batch.msgs) = 2
    /\ Len(chat.batch.calls) = 1
    /\ chat.batch.calls[1].id = chat.batch.msgs[2].id
    /\ chat.batch.msgs[1].id \in chat.batch.before

\* C4: the handler is called once for every newly found message of a batch,
\* in the order of the batch, whether or not an earlier call of the batch
\* was rejected or threw.
C4_CallsInBatchOrderDespiteFailures ==
    (chat.batch.delivered /\ chat.batch.connected /\ chat.batch.player) =>
        LET msgs == chat.batch.msgs
            new == { i \in DOMAIN msgs :
                       /\ msgs[i].id # NoId
                       /\ msgs[i].stampKind = "iso"
                       /\ msgs[i].at > chat.batch.connectionTime
                       /\ msgs[i].id \notin chat.batch.before
                       /\ \A j \in 1..(i - 1) : msgs[j].id # msgs[i].id }
        IN  /\ Len(chat.batch.calls) = Cardinality(new)
            /\ \A i \in new :
                  LET k == Cardinality({ j \in new : j <= i })
                  IN  chat.batch.calls[k].id = msgs[i].id

\* Two new messages in one batch; the call for the first fails, the call
\* for the second is made.
C4_Witness ==
    /\ chat.batch.delivered /\ chat.batch.connected /\ chat.batch.player
    /\ Len(chat.batch.calls) = 2
    /\ chat.batch.calls[1].outcome # "resolved"
    /\ chat.batch.calls[1].id = chat.batch.msgs[1].id
    /\ chat.batch.calls[2].id = chat.batch.msgs[2].id

-----------------------------------------------------------------------------
(***************************************************************************)
(* Properties of navigation, over SpecNav.  last is the operation applied  *)
(* last and pose the pose it read; ctl.pressEdges and ctl.releaseEdges     *)
(* count the press and release edges that operation wrote per key.         *)
(***************************************************************************)

\* C5: after navigateTo is called with a valid pose, whatever calls came
\* before, the navigation target is the (x, z) of that call, isNavigating is
\* true, and exactly one navigation tick interval is armed.
C5_LatestTargetOneInterval ==
    (last.op = "navigateTo" /\ pose.kind = "ok") =>
        /\ ctl.navigationTarget = last.target
        /\ ctl.isNavigating
        /\ ctl.navigationIntervalId
        /\ ctl.navIntervals = 1

\* navigateTo replaced a navigation that was steering forward to the other
\* target: keyW was released by the call, and the new target is active.
C5_Witness ==
    /\ last.op = "navigateTo" /\ pose.kind = "ok"
    /\ last.target = Point(3, 0)
    /\ ctl.navigationTarget = Point(3, 0)
    /\ ctl.releaseEdges["keyW"] = 1
    /\ ctl.navIntervals = 1

\* C6: when navigateTo is called from outside the random walk with a valid
\* pose while a random walk is active, the random walk is stopped when the
\* call returns (flag false, periodic schedule cancelled), whether or not a
\* leg was navigating.
C6_NavigateToStopsRandomWalk ==
    [][ (last'.op = "navigateTo" /\ pose'.kind = "ok" /\ ctl.isWalkingRandomly)
           => /\ ~ctl'.isWalkingRandomly
              /\ ~ctl'.randomWalkIntervalId
              /\ ctl'.walkIntervals = 0 ]_vars

\* navigateTo was called with a valid pose while a random walk was active and
\* no leg was navigating: the call returned with the random walk still
\* active and its interval armed.
C6_Witness ==
    /\ last.op = "navigateTo" /\ pose.kind = "ok"
    /\ ctl.isNavigating /\ ctl.navigationTarget = last.target
    /\ ctl.isWalkingRandomly
    /\ ctl.randomWalkIntervalId
    /\ ctl.walkIntervals = 1

\* C7: when a leg of the random walk starts a navigation while the previous
\* leg is still navigating, the random walk goes on: the flag stays true,
\* the periodic schedule stays armed, and navigation is active towards the
\* new leg's target.
C7_LegTransitionKeepsRandomWalk ==
    [][ (/\ last'.op = "randomWalkTick" /\ last'.res = "leg"
         /\ pose'.kind = "ok"
         /\ ctl.isWalkingRandomly /\ ctl.isNavigating)
           => /\ ctl'.isWalkingRandomly
              /\ ctl'.randomWalkIntervalId
              /\ ctl'.isNavigating
              /\ ctl'.navigationTarget = last'.target ]_vars

\* A leg started while the random walk was active, found a valid pose, and
\* left navigation active towards its target with the random walk cancelled
\* (which stopNavigation does only when it stops a navigation under way).
C7_Witness ==
    /\ last.op = "randomWalkTick" /\ last.res = "leg"
    /\ pose.kind = "ok"
    /\ ctl.isNavigating /\ ctl.navigationTarget = last.target
    /\ ~ctl.isWalkingRandomly
    /\ ~ctl.randomWalkIntervalId

\* C8: stopNavigation called twice in a row leaves the state one call leaves
\* (flag, target, interval, stored reason, random-walk state, timers, and
\* the down, pressed and released flags of every control), for any two
\* reasons; called while navigation is stopped it changes nothing.
C8_StopNavigationIdempotent ==
    /\ \A once \in { BeginCall(StopNavigation(ctl, r1)) : r1 \in StopReasons } :
          \A r2 \in StopReasons : StopNavigation(once, r2) = once
    /\ ~ctl.isNavigating =>
          \A r \in StopReasons : StopNavigation(ctl, r) = ctl

\* stopNavigation was called right after a stopNavigation that had stopped
\* an active navigation.
C8_Witness ==
    /\ last.op = "stopNavigation" /\ last.res = "again"
    /\ ctl.stopReason = "commanded"
    /\ ~ctl.isNavigating /\ ~ctl.navigationIntervalId

\* C9: when stopNavigation stops an active navigation, for any reason, keyW,
\* keyA, keyS, keyD and shiftLeft are up afterwards, a release edge is
\* written for exactly those of them that were down, once each, no press
\* edge is written, and the snapshot of navigation keys is all false.
C9_StopReleasesMovementKeysOnce ==
    ctl.isNavigating =>
        \A r \in StopReasons :
            LET c == StopNavigation(BeginCall(ctl), r)
                movement == {"keyW", "keyA", "keyS", "keyD", "shiftLeft"}
            IN  /\ \A k \in movement :
                      /\ ~c.keys[k].down
                      /\ ~c.keys[k].pressed \/ ~ctl.keys[k].down
                      /\ c.releaseEdges[k] = (IF ctl.keys[k].down THEN 1 ELSE 0)
                      /\ c.keys[k].released =
                            (ctl.keys[k].down \/ ctl.keys[k].released)
                /\ \A k \in AllKeys : c.pressEdges[k] = 0
                /\ \A k \in AllKeys \ movement : c.releaseEdges[k] = 0
                /\ \A k \in DOMAIN ctl.keys \ movement : c.keys[k] = ctl.keys[k]
                /\ c.currentNavKeys =
                      [forward |-> FALSE, backward |-> FALSE,
                       left |-> FALSE, right |-> FALSE]

\* stopNavigation stopped a navigation that held keyW down while a caller
\* held keyS down: both were released, keyA was up and got no edge.
C9_Witness ==
    /\ last.op = "stopNavigation"
    /\ ctl.releaseEdges["keyW"] = 1
    /\ ctl.releaseEdges["keyS"] = 1
    /\ ctl.releaseEdges["keyA"] = 0
    /\ ~ctl.keys["keyW"].down /\ ~ctl.keys["keyS"].down
    /\ ~ctl.isNavigating

\* C10: a navigation tick that finds the embodiment within planar distance
\* 1 of the target, at any height, stops navigation with the reason
\* "reached target": isNavigating false, target cleared, interval cancelled,
\* the movement keys and the modifier up, no press edge written.
C10_TickAtTargetStops ==
    (ctl.isNavigating /\ ctl.navigationTarget.kind = "point") =>
        \A p \in Poses :
            LET dx == ctl.navigationTarget.x - p.pos[1]
                dz == ctl.navigationTarget.z - p.pos[3]
                c == NavigationTick(BeginCall(ctl), p)
            IN  (p.kind \in {"ok", "nanQuat"} /\ dx * dx + dz * dz <= 1) =>
                    /\ ~c.isNavigating
                    /\ c.navigationTarget = NoTarget
                    /\ ~c.navigationIntervalId
                    /\ c.navIntervals = 0
                    /\ c.stopReason = "reached target"
                    /\ \A k \in {"keyW", "keyA", "keyS", "keyD", "shiftLeft"} :
                          ~c.keys[k].down
                    /\ \A k \in AllKeys : c.pressEdges[k] = 0

\* A tick found the embodiment four units above a point at planar distance
\* zero from the target and stopped, releasing the key it was turning with.
C10_Witness ==
    /\ last.op = "navigationTick" /\ last.res = "reached"
    /\ last.target = Point(0, 1)
    /\ pose = PoseOf("ok", <<0, 4, 1>>, IdentityQuat)
    /\ ctl.stopReason = "reached target"
    /\ ~ctl.isNavigating
    /\ ctl.releaseEdges["keyD"] = 1

-----------------------------------------------------------------------------
(***************************************************************************)
(* Properties of the random walk, over SpecWalk.  The "first tick"         *)
(* timeouts of startRandomWalk all have the same delay and are never       *)
(* cleared, so they fire in the order of the starts: when one fires while  *)
(* another is pending, it is the timeout of a start made before the        *)
(* latest start.                                                           *)
(***************************************************************************)

\* The keys stopNavigation releases.
MovementKeys == {"keyW", "keyA", "keyS", "keyD", "shiftLeft"}

\* C11: whatever startRandomWalk and stopRandomWalk calls were made, at most
\* one periodic leg schedule is armed, and it is armed exactly when the
\* random walk is active; and the first-tick timeout of a start made before
\* the latest start generates no leg when it fires.
C11_RestartLeavesNoEarlierLeg ==
    [][ /\ ctl'.walkIntervals <= 1
        /\ (ctl'.walkIntervals = 1) = ctl'.isWalkingRandomly
        /\ ctl'.randomWalkIntervalId = ctl'.isWalkingRandomly
        /\ (/\ last'.op = "randomWalkTick"
            /\ ctl'.walkTimeouts < ctl.walkTimeouts
            /\ ctl.walkTimeouts >= 2)
              => last'.res = "skipped" ]_vars

\* A random walk was restarted while the timeout of the earlier start was
\* pending: two first-tick timeouts are pending and the random walk is
\* active, so both will generate a leg.
C11_Witness ==
    /\ last.op = "startRandomWalk" /\ last.res = "restart"
    /\ ctl.isWalkingRandomly
    /\ ctl.walkTimeouts = 2
    /\ ctl.walkIntervals = 1

\* C12: stopRandomWalk(reason) on an active random walk clears the walking
\* flag and cancels the periodic schedule; for every reason but "navigation
\* stopped" it leaves no navigation active, no navigation interval armed and
\* the movement keys up; for "navigation stopped" it leaves the navigation
\* state as it was.
C12_StopRandomWalkStopsLeg ==
    ctl.isWalkingRandomly =>
        \A r \in StopReasons \cup WalkStopReasons \cup {"restarting"} :
            LET s == StopRandomWalk(ctl, r)
            IN  /\ ~s.isWalkingRandomly
                /\ ~s.randomWalkIntervalId
                /\ s.walkIntervals = 0
                /\ r # "navigation stopped" =>
                      /\ ~s.isNavigating
                      /\ s.navigationTarget = NoTarget
                      /\ ~s.navigationIntervalId
                      /\ s.navIntervals = 0
                      /\ \A k \in MovementKeys : ~s.keys[k].down
                /\ r = "navigation stopped" =>
                      /\ s.isNavigating = ctl.isNavigating
                      /\ s.navIntervals = ctl.navIntervals
                      /\ s.keys = ctl.keys

\* stopRandomWalk was called while a leg was navigating with a key down: it
\* stopped the leg, releasing the key, and the random walk.
C12_Witness ==
    /\ last.op = "stopRandomWalk"
    /\ ctl.stopReason = "random walk stopped"
    /\ \E k \in MovementKeys : ctl.releaseEdges[k] = 1
    /\ ~ctl.isWalkingRandomly /\ ctl.walkIntervals = 0
    /\ ~ctl.isNavigating /\ ctl.navIntervals = 0

\* C13: while a random walk with maxDistance 0 is active, a leg that finds a
\* valid pose navigates to the planar position of that pose, and the
\* navigation tick that finds the same pose stops the navigation with the
\* reason "reached target".
C13_ZeroDistanceLegReachedAtOnce ==
    /\ (ctl.isWalkingRandomly /\ ctl.randomWalkMaxDistance = 0) =>
          \A p \in { q \in Poses : q.kind = "ok" } :
              \A o \in WalkOffsets(ctl.randomWalkMaxDistance) :
                  LET leg == RandomWalkTick(ctl, p, o)
                      tick == NavigationTick(leg, p)
                  IN  /\ leg.isNavigating
                      /\ leg.navigationTarget = Point(p.pos[1], p.pos[3])
                      /\ ~tick.isNavigating
                      /\ tick.navigationTarget = NoTarget
                      /\ tick.stopReason = "reached target"
    /\ (/\ last.op = "randomWalkTick" /\ last.res = "leg"
        /\ ctl.randomWalkMaxDistance = 0 /\ pose.kind = "ok")
          => /\ last.target = Point(pose.pos[1], pose.pos[3])
             /\ ctl.navigationTarget = last.target

\* A leg of a random walk with maxDistance 0 started from a position off the
\* origin, and the next tick, at that position, stopped the navigation as
\* having reached the target.
C13_Witness ==
    /\ last.op = "navigationTick" /\ last.res = "reached"
    /\ ctl.randomWalkMaxDistance = 0
    /\ pose.kind = "ok" /\ pose.pos # Origin
    /\ last.target = Point(pose.pos[1], pose.pos[3])
    /\ ctl.stopReason = "reached target"
    /\ ~ctl.isNavigating

-----------------------------------------------------------------------------
(***************************************************************************)
(* Properties of jump, crouch and the button states, over SpecJump.  now   *)
(* is Date.now(); last.res of a jump is what the call did to the world.    *)
(***************************************************************************)

\* C14: jump() called while a jump is in flight, or less than JUMP_COOLDOWN
\* after the last accepted jump, changes nothing: not the in-flight flag,
\* the time of the last jump or any button state; it sets no reset timeout
\* and does nothing to the world (no native jump, no tween), whatever pose
\* and capabilities it finds.
C14_JumpInFlightOrOnCooldownIsNoOp ==
    (ctl.isJumping \/ now - ctl.lastJumpTime < JUMP_COOLDOWN) =>
        \A p \in Poses :
            /\ Jump(ctl, p, now) = ctl
            /\ \A cap \in JumpCapabilities : JumpEffect(ctl, p, now, cap) = "nothing"

\* jump() was called with the player present after the reset timeout of the
\* last jump had fired, but before the cooldown had elapsed, and did nothing.
C14_Witness ==
    /\ last.op = "jump" /\ last.res = "nothing"
    /\ pose.kind # "noPlayer"
    /\ ~ctl.isJumping
    /\ ctl.lastJumpTime > 0
    /\ now - ctl.lastJumpTime < JUMP_COOLDOWN
    /\ ctl.jumpResets = <<>>

\* C15: a jump is in flight exactly while a reset timeout is pending; at
\* most one is pending, and it is the timeout of the last accepted jump, so
\* no reset timeout of an earlier jump fires during a later jump.  After an
\* accepted jump, also one whose impulse threw, the jump is in flight; after
\* the reset timeout has fired it is not.
C15_OneResetPerJumpInFlight ==
    /\ Len(ctl.jumpResets) <= 1
    /\ ctl.isJumping = (Len(ctl.jumpResets) = 1)
    /\ \A i \in DOMAIN ctl.jumpResets :
          ctl.jumpResets[i] = ctl.lastJumpTime + JUMP_DURATION
    /\ (last.op = "jump" /\ last.res # "nothing") => ctl.isJumping
    /\ last.op = "jumpReset" => ~ctl.isJumping

\* A second jump was accepted, its impulse threw, and it is in flight with
\* its own reset timeout pending.
C15_Witness ==
    /\ last.op = "jump" /\ last.res = "threw"
    /\ ctl.isJumping
    /\ ctl.lastJumpTime >= Epoch + JUMP_COOLDOWN
    /\ ctl.jumpResets = << ctl.lastJumpTime + JUMP_DURATION >>

\* C16: a jump in flight and a crouch never hold together, and the crouch
\* control controlLeft is not down while a jump is in flight.
C16_NeverJumpingAndCrouching ==
    /\ ~(ctl.isJumping /\ ctl.isCrouching)
    /\ ctl.isJumping => ~ctl.keys["controlLeft"].down

\* jump() was accepted while crouching: the jump is in flight, the crouch
\* persists and controlLeft is down.
C16_Witness ==
    /\ last.op = "jump" /\ last.res # "nothing"
    /\ ctl.isJumping
    /\ ctl.isCrouching
    /\ ctl.keys["controlLeft"].down

\* C17: for every control, pressed implies down, released implies not
\* down, and pressed and released are never both set; setKey(k, true) on a
\* control that is up (or not yet created) leaves it down and pressed,
\* setKey(k, false) on a control that is down leaves it up and released,
\* and setKey with the control's current down value changes no flag.
C17_ButtonStateMachine ==
    /\ \A k \in DOMAIN ctl.keys :
          /\ ctl.keys[k].pressed => ctl.keys[k].down
          /\ ctl.keys[k].released => ~ctl.keys[k].down
          /\ ~(ctl.keys[k].pressed /\ ctl.keys[k].released)
    /\ \A k \in AllKeys :
          IF k \in DOMAIN ctl.keys /\ ctl.keys[k].down
          THEN /\ SetKey(ctl, k, FALSE).keys[k] =
                     [down |-> FALSE, pressed |-> FALSE, released |-> TRUE]
               /\ SetKey(ctl, k, TRUE).keys = ctl.keys
          ELSE /\ SetKey(ctl, k, TRUE).keys[k] =
                     [down |-> TRUE, pressed |-> TRUE, released |-> FALSE]
               /\ k \in DOMAIN ctl.keys => SetKey(ctl, k, FALSE).keys = ctl.keys

\* A control created by setKey was pressed and then released before the
\* clearing pass: it is up and released, and not pressed.
C17_Witness ==
    /\ last.op = "setKey"
    /\ "key1" \in DOMAIN ctl.keys
    /\ ctl.keys["key1"] = [down |-> FALSE, pressed |-> FALSE, released |-> TRUE]
    /\ ctl.releaseEdges["key1"] = 1

\* What one clearing pass does to the controls c: every control, created by
\* the constructor or later, has pressed and released cleared and down as
\* before, and nothing else differs.
ClearsEdgesOnly(c) ==
    LET after == PostLateUpdate(c)
    IN  /\ DOMAIN after.keys = DOMAIN c.keys
        /\ \A k \in DOMAIN c.keys :
              after.keys[k] = [down |-> c.keys[k].down,
                               pressed |-> FALSE, released |-> FALSE]
        /\ [after EXCEPT !.keys = c.keys] = c

\* C18: one clearing pass clears pressed and released of every control,
\* also of one setKey created, and leaves every down value and the
\* navigation, random-walk, jump and crouch state as they were: in the
\* state reached, and in that state with a random walk started and a
\* navigation started and ticked.
C18_ClearingPassClearsEveryControl ==
    /\ ClearsEdgesOnly(ctl)
    /\ \A w \in WalkSettings, t \in Targets, p \in FinitePoses :
          /\ ClearsEdgesOnly(StartRandomWalk(ctl, w[1], w[2]))
          /\ ClearsEdgesOnly(NavigationTick(NavigateTo(ctl, p, t), p))

\* The clearing pass ran with a control setKey created held down, during a
\* jump and a crouch: the control is down without edge flags.
C18_Witness ==
    /\ last.op = "postLateUpdate"
    /\ "key1" \in DOMAIN ctl.keys
    /\ ctl.keys["key1"] = [down |-> TRUE, pressed |-> FALSE, released |-> FALSE]
    /\ ctl.isJumping
    /\ ctl.isCrouching

-----------------------------------------------------------------------------
(***************************************************************************)
(* Properties of the entity cache and the name registry, over              *)
(* SpecEntities.  last.res of an entity event tells whether the listener   *)
(* changed anything.                                                       *)
(***************************************************************************)

\* Maps a and b agree on every id but entityId.
SameButFor(a, b, entityId) ==
    /\ DOMAIN a \ {entityId} = DOMAIN b \ {entityId}
    /\ \A i \in DOMAIN a \ {entityId} : a[i] = b[i]

\* C19: after entityRemovedListener has run for an id, the id is neither in
\* the entity cache nor in the name registry, and the snapshot and the name
\* of every other id are as before.
C19_RemovedFromCacheAndRegistry ==
    \A entityId \in EntityIds :
        LET s == EntityRemovedListener(svc, entityId)
        IN  /\ entityId \notin DOMAIN s.currentEntities
            /\ entityId \notin DOMAIN s.playerNamesMap
            /\ SameButFor(s.currentEntities, svc.currentEntities, entityId)
            /\ SameButFor(s.playerNamesMap, svc.playerNamesMap, entityId)

\* 'entityRemoved' took a tracked entity out of the cache and the registry,
\* while another player stays in both.
C19_Witness ==
    /\ last.op = "entityRemoved" /\ last.res = "removed"
    /\ \E entityId \in EntityIds :
          /\ entityId \notin DOMAIN svc.currentEntities
          /\ entityId \notin DOMAIN svc.playerNamesMap
          /\ \E other \in EntityIds \ {entityId} :
                /\ other \in DOMAIN svc.currentEntities
                /\ other \in DOMAIN svc.playerNamesMap

\* C20: entityAddedListener run twice on the same entity leaves the cache
\* and the registry as one run leaves them; entityRemovedListener run twice
\* on the same id leaves them as one run leaves them, and run on an id that
\* is in neither it changes nothing.
C20_DuplicateEventsAreNoOps ==
    /\ \A entity \in Entities :
          LET once == EntityAddedListener(svc, entity)
          IN  EntityAddedListener(once, entity) = once
    /\ \A entityId \in EntityIds \cup {NoId} :
          LET once == EntityRemovedListener(svc, entityId)
          IN  /\ EntityRemovedListener(once, entityId) = once
              /\ (/\ entityId \notin DOMAIN svc.currentEntities
                  /\ entityId \notin DOMAIN svc.playerNamesMap) => once = svc

\* 'entityAdded' was delivered again for a player known under another name:
\* the second delivery changed nothing.
C20_Witness ==
    /\ last.op = "entityAdded" /\ last.res = "again"
    /\ "agent" \in DOMAIN svc.currentEntities
    /\ svc.currentEntities["agent"].position = "p1"
    /\ svc.playerNamesMap["agent"] = "Agent"

\* C21: for a tracked player, entityModifiedListener run on changed data
\* that carry a name leaves that name in the registry and as the answer of
\* getEntityName, with the full entity or without it; so does
\* entityAddedListener run again on the player under a new name.
C21_NameChangeReachesRegistry ==
    \A entityId \in EntityIds :
        (/\ entityId \in DOMAIN svc.currentEntities
         /\ svc.currentEntities[entityId].type = "player")
        => /\ \A changedData \in Patches, fullEntity \in ItemsOf(entityId) :
                (/\ changedData.name # NoName
                 /\ fullEntity.type \in {"player", "none"})
                => LET s == EntityModifiedListener(svc, entityId, changedData,
                                                   fullEntity)
                   IN  /\ entityId \in DOMAIN s.playerNamesMap
                       /\ s.playerNamesMap[entityId] = changedData.name
                       /\ GetEntityName(s, entityId, fullEntity) = changedData.name
           /\ \A entity \in Entities :
                (/\ entity.id = entityId /\ entity.type = "player"
                 /\ entity.name # NoName)
                => LET s == EntityAddedListener(svc, entity)
                   IN  /\ entityId \in DOMAIN s.playerNamesMap
                       /\ s.playerNamesMap[entityId] = entity.name
                       /\ GetEntityName(s, entityId, entity) = entity.name

\* 'entityModified' came for the agent's player without the entity, its
\* changed data carrying a new name and a quaternion: the snapshot took the
\* quaternion, the registry kept the old name.
C21_Witness ==
    /\ last.op = "entityModified" /\ last.res = "merged"
    /\ "agent" \in DOMAIN svc.currentEntities
    /\ svc.currentEntities["agent"].rotation = "r1"
    /\ svc.playerNamesMap["agent"] = "Agent"
    /\ GetEntityName(svc, "agent", NoEntity) = "Agent"

\* Every datum of the session is cleared: the fields handleDisconnect is to
\* leave behind, with the world id of the session among them.
SessionCleared(s) ==
    /\ s.currentEntities = EmptyMap
    /\ s.playerNamesMap = EmptyMap
    /\ s.processedMsgIds = {}
    /\ s.world = NoWorld
    /\ s.controls = NoControls
    /\ ~s.isConnectedState
    /\ s.currentWorldId = NoWorldId
    /\ s.wsUrl = NoUrl
    /\ s.connectionTime = 0

\* C22: when handleDisconnect ends for a session that was connected, the
\* entity cache, the name registry and the processed ids are empty, world and
\* controls are null, the service is not connected, and currentWorldId, wsUrl
\* and connectionTime are null.
C22_TeardownClearsSession ==
    [][(svc.pc = "closing" /\ svc'.pc = "idle") => SessionCleared(svc')]_vars

\* The first session was connected and torn down: its world is destroyed and
\* every field but the world id is cleared.
C22_Witness ==
    /\ svc.pc = "idle" /\ ~svc.isConnectedState
    /\ svc.worlds[1].destroys = 1 /\ svc.worlds[1].listeners # {}
    /\ svc.world = NoWorld /\ svc.controls = NoControls /\ svc.wsUrl = NoUrl
    /\ svc.connectionTime = 0 /\ svc.processedMsgIds = {}
    /\ svc.currentEntities = EmptyMap /\ svc.playerNamesMap = EmptyMap
    /\ svc.currentWorldId = 1

\* C26: when connect rejects, at whatever step, the service is left with no
\* partly initialised state: it is not connected, world and controls are
\* null, the caches are empty, wsUrl, the world id and connectionTime are
\* cleared, and none of the service's timers is armed.
C26_RejectedConnectLeavesNothing ==
    [][(chat'.session = chat.session + 1 /\ svc.pc # "init")
       => (SessionCleared(svc') /\ svc'.timers = {})]_vars

\* createNodeClientWorld threw in the first connect: no world was made, and
\* the service keeps the wsUrl and the world id of the rejected call.
C26_Witness ==
    /\ chat.session = 1 /\ svc.pc = "idle" /\ ~svc.isConnectedState
    /\ ~svc.worlds[1].made
    /\ svc.world = NoWorld /\ svc.timers = {}
    /\ svc.wsUrl = 1 /\ svc.currentWorldId = 1

\* The entity cache and the name registry of s and t are the same.
SameCaches(s, t) ==
    /\ s.currentEntities = t.currentEntities
    /\ s.playerNamesMap = t.playerNamesMap

\* C23: once handleDisconnect has destroyed a world, the 'entityAdded',
\* 'entityModified' and 'entityRemoved' events of that world change neither
\* the entity cache nor the name registry.
C23_TornDownWorldIsNotHeard ==
    \A w \in WorldIds :
        (svc.worlds[w].destroys > 0 /\ w # svc.world)
        => /\ \A entity \in Entities :
                SameCaches(Emit(svc, w, EntityAddedListener(svc, entity)), svc)
           /\ \A entityId \in EntityIds :
                /\ SameCaches(Emit(svc, w, EntityRemovedListener(svc, entityId)), svc)
                /\ \A changedData \in Patches, fullEntity \in ItemsOf(entityId) :
                      SameCaches(Emit(svc, w,
                          EntityModifiedListener(svc, entityId, changedData,
                                                 fullEntity)), svc)

\* The service is connected to its second world, the first is destroyed, and
\* an 'entityAdded' of the first world has put an entity into the cache.
C23_Witness ==
    /\ last.op = "entityAdded" /\ last.res = "stale"
    /\ svc.isConnectedState /\ svc.world = 2
    /\ svc.worlds[1].destroys = 1
    /\ "e2" \in DOMAIN svc.currentEntities

C25_AtMostOneLiveWorld ==
    /\ Cardinality({ w \in WorldIds : Live(svc, w) }) <= 1
    /\ svc.controls = svc.world
    /\ svc.world # NoWorld => Live(svc, svc.world)

\* connect was called while an earlier connect awaited world.init: both
\* worlds are live, and the service holds the second.
C25_Witness ==
    /\ last.op = "connect" /\ last.res = "overlapping"
    /\ Live(svc, 1) /\ Live(svc, 2)
    /\ svc.world = 2 /\ svc.controls = 2

\* C27: once handleDisconnect has ended for the first session, no timer of
\* that session's controls is armed: neither the navigation interval nor the
\* random-walk interval nor the timeout of a random-walk start.
C27_NoControlsTimerAfterTeardown ==
    svc.worlds[1].destroys > 0
    => /\ ctl.navIntervals = 0
       /\ ctl.walkIntervals = 0
       /\ ctl.walkTimeouts = 0

\* The first session is torn down while its controls walk randomly towards
\* a target: both intervals are still armed.
C27_Witness ==
    /\ svc.worlds[1].destroys = 1 /\ svc.world = NoWorld /\ svc.controls = NoControls
    /\ ctl.isWalkingRandomly /\ ctl.walkIntervals > 0
    /\ ctl.isNavigating /\ ctl.navIntervals > 0

-----------------------------------------------------------------------------
(***************************************************************************)
(* Properties of the steering of the tick, over SpecSteer.  The heading    *)
(* angle between the forward vector f and the direction d is told by the   *)
(* tangent: with dot = f.d and cross = (f x d).y, the angle is over 45     *)
(* degrees iff dot < 0 or |cross| > dot, and over 10 degrees iff dot < 0   *)
(* or |cross| > tan(10 degrees) * dot.                                     *)
(***************************************************************************)

Abs(x) == IF x < 0 THEN -x ELSE x

\* tan(PI / 18), as a fraction
TAN_FORWARD_NUM == 17633
TAN_FORWARD_DEN == 100000

Over45(f, d) == Dot(f, d) < 0 \/ Abs(CrossY(f, d)) > Dot(f, d)

Over10(f, d) ==
    Dot(f, d) < 0 \/ Abs(CrossY(f, d)) * TAN_FORWARD_DEN > TAN_FORWARD_NUM * Dot(f, d)

\* C28: a tick that steers chooses its keys from the heading angle: over 45
\* degrees it turns in place, exactly one of left and right set and forward
\* not; otherwise forward is set, and left or right only when the angle is
\* over 10 degrees, never both; backward is never set; and with the forward
\* vector pointing at the target only forward is set.  The keys are down as
\* chosen.
C28_SteeringFromHeadingAngle ==
    \A p \in SteeringPoses :
        TickResult(ctl, p) = "steer" =>
            LET f == ForwardWorld(p.q)
                d == DirectionWorld(p, ctl.navigationTarget)
                c == NavigationTick(BeginCall(ctl), p)
                k == c.currentNavKeys
            IN  /\ ~k.backward
                /\ ~(k.left /\ k.right)
                /\ Over45(f, d) => (~k.forward /\ (k.left \/ k.right))
                /\ ~Over45(f, d) =>
                      (k.forward /\ ((k.left \/ k.right) => Over10(f, d)))
                /\ (CrossY(f, d) = 0 /\ Dot(f, d) > 0) =>
                      (k.forward /\ ~k.left /\ ~k.right)
                /\ c.keys["keyW"].down = k.forward
                /\ c.keys["keyA"].down = k.left
                /\ c.keys["keyD"].down = k.right
                /\ ~c.keys["keyS"].down

\* A tick at the origin facing +Z steered towards the target (0, 5) straight
\* ahead: forward is set, left and right are not.
C28_Witness ==
    /\ last.op = "navigationTick" /\ last.res = "steer"
    /\ last.target = Point(0, 5)
    /\ pose = PoseOf("ok", Origin, <<0, 1, 0, 0>>)
    /\ ctl.currentNavKeys =
          [forward |-> TRUE, backward |-> FALSE, left |-> FALSE, right |-> FALSE]
    /\ ctl.keys["keyW"].down /\ ~ctl.keys["keyA"].down /\ ~ctl.keys["keyD"].down

-----------------------------------------------------------------------------
(***************************************************************************)
(* Properties of the tick on a pose it cannot use, over SpecWalk.          *)
(***************************************************************************)

\* The poses whose reading fails: the player or its base is missing, the
\* reading throws, or a component is not a number.
UnreadKinds == {"noPlayer", "noBase", "throws", "noPos", "badY", "badQuat"}

\* The poses with a NaN component.
NaNKinds == {"nanPos", "nanQuat"}

\* C29, as claimed: a tick of an active navigation that cannot read the pose
\* or reads a NaN component leaves the down, pressed and released flags of
\* every control as they were.
C29_BadPoseTickKeepsButtons ==
    (ctl.isNavigating /\ ctl.navigationTarget # NoTarget) =>
        \A p \in Poses :
            p.kind \in UnreadKinds \cup NaNKinds =>
                NavigationTick(BeginCall(ctl), p).keys = ctl.keys

\* C29, amended: such a tick presses no control and changes none but the
\* movement keys: keyW, keyA, keyS and keyD are up after it, shiftLeft is up
\* or as it was, and every other control is as it was.
C29_BadPoseTickOnlyReleases ==
    (ctl.isNavigating /\ ctl.navigationTarget # NoTarget) =>
        \A p \in Poses :
            p.kind \in UnreadKinds \cup NaNKinds =>
                LET c == NavigationTick(BeginCall(ctl), p)
                IN  /\ \A k \in AllKeys : c.pressEdges[k] = 0
                    /\ DOMAIN c.keys = DOMAIN ctl.keys
                    /\ \A k \in DOMAIN ctl.keys \ MovementKeys :
                          c.keys[k] = ctl.keys[k]
                    /\ \A k \in {"keyW", "keyA", "keyS", "keyD"} :
                          /\ ~c.keys[k].down
                          /\ c.releaseEdges[k] = (IF ctl.keys[k].down THEN 1 ELSE 0)
                    /\ \/ ~c.keys["shiftLeft"].down
                       \/ c.keys["shiftLeft"] = ctl.keys["shiftLeft"]

\* A tick read a NaN position while the navigation was turning: it released
\* the key and the navigation goes on.
C29_Witness ==
    /\ last.op = "navigationTick" /\ last.res = "hold"
    /\ pose.kind = "nanPos"
    /\ ctl.isNavigating
    /\ \E k \in {"keyA", "keyD"} :
          ctl.releaseEdges[k] = 1 /\ ctl.keys[k].released /\ ~ctl.keys[k].down

\* The reasons of the tick for stopping on a pose it cannot read.
TickErrorReasons ==
    { "tick error - player missing", "tick error - player base missing",
      "tick error - exception accessing player state",
      "tick error - invalid position values",
      "tick error - invalid quaternion values" }

\* C30: a tick of an active navigation that cannot read the pose (player or
\* base missing, a component that is not a number, an exception) stops the
\* navigation through stopNavigation with a 'tick error' reason: the flag is
\* false, the target cleared, the interval cancelled.
C30_UnreadPoseStopsNavigation ==
    (ctl.isNavigating /\ ctl.navigationTarget # NoTarget) =>
        \A p \in Poses :
            p.kind \in UnreadKinds =>
                LET c == NavigationTick(BeginCall(ctl), p)
                IN  /\ c = StopNavigation(BeginCall(ctl), c.stopReason)
                    /\ c.stopReason \in TickErrorReasons
                    /\ ~c.isNavigating
                    /\ c.navigationTarget = NoTarget
                    /\ ~c.navigationIntervalId
                    /\ c.navIntervals = 0

\* A tick found no player while the navigation held a key down: navigation
\* is stopped with the reason of the missing player and the key released.
C30_Witness ==
    /\ last.op = "navigationTick" /\ last.res = "error"
    /\ pose.kind = "noPlayer"
    /\ ctl.stopReason = "tick error - player missing"
    /\ ~ctl.isNavigating /\ ctl.navigationTarget = NoTarget
    /\ ctl.navIntervals = 0
    /\ \E k \in MovementKeys : ctl.releaseEdges[k] = 1

-----------------------------------------------------------------------------
(***************************************************************************)
(* Properties of the tick whose vectors are degenerate, over SpecWalk.     *)
(***************************************************************************)

\* C31: a tick of an active navigation whose forward vector or direction to
\* the target is NaN or of zero length holds position: keyW, keyA, keyS and
\* keyD are up after it and none is pressed, the snapshot of the keys is all
\* false, and the navigation goes on as it was: flag, target, interval,
\* reason and random walk are unchanged, so the next tick decides again.
C31_DegenerateVectorsHoldPosition ==
    \A p \in Poses :
        (/\ ctl.isNavigating
         /\ ctl.navigationTarget # NoTarget
         /\ TickRefusal(p) = NoReason
         /\ ~ReachedTarget(p, ctl.navigationTarget)
         /\ ForwardInvalid(p) \/ DirectionInvalid(p, ctl.navigationTarget)) =>
            LET c == NavigationTick(BeginCall(ctl), p)
            IN  /\ \A k \in {"keyW", "keyA", "keyS", "keyD"} :
                      /\ ~c.keys[k].down
                      /\ c.pressEdges[k] = 0
                /\ c.currentNavKeys = NoNavKeys
                /\ c.isNavigating
                /\ c.navigationTarget = ctl.navigationTarget
                /\ c.navigationIntervalId = ctl.navigationIntervalId
                /\ c.navIntervals = ctl.navIntervals
                /\ c.stopReason = ctl.stopReason
                /\ c.isWalkingRandomly = ctl.isWalkingRandomly
                /\ c.randomWalkIntervalId = ctl.randomWalkIntervalId
                /\ c.walkIntervals = ctl.walkIntervals

\* A tick read a NaN quaternion while the navigation held a key down: the
\* key is released, the snapshot reset, and the navigation goes on with its
\* target and its interval.
C31_Witness ==
    /\ last.op = "navigationTick" /\ last.res = "hold"
    /\ pose.kind = "nanQuat"
    /\ ctl.isNavigating
    /\ ctl.navigationTarget = last.target /\ last.target.kind = "point"
    /\ ctl.navigationIntervalId /\ ctl.navIntervals = 1
    /\ ctl.currentNavKeys = NoNavKeys
    /\ \E k \in {"keyW", "keyA", "keyD"} : ctl.releaseEdges[k] = 1

-----------------------------------------------------------------------------
(***************************************************************************)
(* Properties of the two stop paths calling each other, over SpecWalk.     *)
(***************************************************************************)

\* Reasons a stop may be called with: those of the controls, those of the
\* callers, and one that neither stop path knows.
AnyReasons ==
    StopReasons \cup WalkStopReasons \cup {"restarting", "an unknown reason"}

\* Flag, target, interval id and live intervals of the navigation agree.
NavigationConsistent(c) ==
    /\ c.isNavigating = c.navigationIntervalId
    /\ c.isNavigating = (c.navigationTarget # NoTarget)
    /\ c.navIntervals = (IF c.navigationIntervalId THEN 1 ELSE 0)

\* Flag, interval id and live intervals of the random walk agree.
RandomWalkConsistent(c) ==
    /\ c.isWalkingRandomly = c.randomWalkIntervalId
    /\ c.walkIntervals = (IF c.randomWalkIntervalId THEN 1 ELSE 0)

\* C32: a call of stopNavigation or stopRandomWalk, in any state and with
\* any reason, makes at most three calls of the two stop paths in all, itself
\* included; when it returns, what it stops is stopped (flag false, interval
\* cancelled), what it cascades to is stopped likewise, and the flags and
\* intervals of both agree.
C32_StopPathsTerminateConsistently ==
    \A r \in AnyReasons :
        LET n == StopNavigation(BeginCall(ctl), r)
            w == StopRandomWalk(BeginCall(ctl), r)
        IN  /\ StopNavigationCalls(ctl, r) <= 2
            /\ StopRandomWalkCalls(ctl, r) <= 3
            /\ ~n.isNavigating /\ ~n.navigationIntervalId /\ n.navIntervals = 0
            /\ (ctl.isNavigating /\ r # "random walk tick") =>
                  (~n.isWalkingRandomly /\ ~n.randomWalkIntervalId
                     /\ n.walkIntervals = 0)
            /\ NavigationConsistent(n) /\ RandomWalkConsistent(n)
            /\ ~w.isWalkingRandomly /\ ~w.randomWalkIntervalId /\ w.walkIntervals = 0
            /\ (ctl.isWalkingRandomly /\ r # "navigation stopped") =>
                  (~w.isNavigating /\ ~w.navigationIntervalId
                     /\ w.navIntervals = 0)
            /\ NavigationConsistent(w) /\ RandomWalkConsistent(w)

\* stopNavigation was called by a caller while a navigation was under way
\* and stopped it, releasing a key; the random walk is stopped as well, with
\* its first tick still to come.
C32_Witness ==
    /\ last.op = "stopNavigation" /\ last.res = "first"
    /\ ctl.stopReason = "commanded"
    /\ \E k \in MovementKeys : ctl.releaseEdges[k] = 1
    /\ ~ctl.isNavigating /\ ~ctl.navigationIntervalId /\ ctl.navIntervals = 0
    /\ ~ctl.isWalkingRandomly /\ ~ctl.randomWalkIntervalId /\ ctl.walkIntervals = 0
    /\ ctl.walkTimeouts = 1

-----------------------------------------------------------------------------
(***************************************************************************)
(* Properties of a leg that finds no position, over SpecWalk.              *)
(***************************************************************************)

\* C33: a leg of an active random walk that cannot read the position of the
\* embodiment (player or base missing, a component that is not a number, an
\* exception) hands navigateTo a target within maxDistance of the origin,
\* and the random walk is active after the leg: the flag is true and the
\* periodic schedule armed.
C33_LegWithoutPositionKeepsRandomWalk ==
    [][ (/\ last'.op = "randomWalkTick" /\ last'.res = "leg"
         /\ ~WalkPositionKnown(pose'))
           => /\ last'.target.kind = "point"
              /\ LengthSq(<<last'.target.x, last'.target.z>>)
                    <= ctl.randomWalkMaxDistance * ctl.randomWalkMaxDistance
              /\ ctl'.isWalkingRandomly
              /\ ctl'.randomWalkIntervalId
              /\ ctl'.walkIntervals = 1 ]_vars

\* A leg found no player while the previous leg was navigating: navigateTo
\* refused with the reason of the missing player, and the random walk is
\* cancelled with the navigation.
C33_Witness ==
    /\ last.op = "randomWalkTick" /\ last.res = "leg"
    /\ pose.kind = "noPlayer"
    /\ last.target.kind = "point"
    /\ ctl.stopReason = "error - player missing"
    /\ ~ctl.isNavigating
    /\ ~ctl.isWalkingRandomly /\ ~ctl.randomWalkIntervalId /\ ctl.walkIntervals = 0

-----------------------------------------------------------------------------
(***************************************************************************)
(* Properties of 'entityModified' without a full entity, over SpecEntities.*)
(***************************************************************************)

\* C34: when 'entityModified' comes for a tracked id and there is no full
\* entity, the new snapshot is the cached one with the fields of the changed
\* data applied: type, name, position and rotation each keep the cached
\* value unless the changed data carry them, and the snapshots of the other
\* ids stay; for an id that is not tracked the cache is unchanged.
C34_PatchMergedOntoSnapshot ==
    ListenersAttached(svc) =>
        \A entityId \in EntityIds, changedData \in Patches :
            LET s == EntityModifiedListener(svc, entityId, changedData, NoEntity)
            IN  IF entityId \in DOMAIN svc.currentEntities
                THEN LET old == svc.currentEntities[entityId]
                         new == s.currentEntities[entityId]
                     IN  /\ DOMAIN s.currentEntities = DOMAIN svc.currentEntities
                         /\ \A i \in DOMAIN svc.currentEntities \ {entityId} :
                               s.currentEntities[i] = svc.currentEntities[i]
                         /\ new.id = entityId
                         /\ new.type = old.type
                         /\ new.name = (IF changedData.name # NoName
                                        THEN changedData.name ELSE old.name)
                         /\ new.position = (IF changedData.position # "none"
                                            THEN changedData.position
                                            ELSE old.position)
                         /\ new.rotation = (IF changedData.quaternion # "none"
                                            THEN changedData.quaternion
                                            ELSE old.rotation)
                ELSE s.currentEntities = svc.currentEntities

\* 'entityModified' came for the agent without a full entity, carrying a new
\* position only: the snapshot has the new position and has lost its
\* rotation.
C34_Witness ==
    /\ last.op = "entityModified" /\ last.res = "merged"
    /\ "agent" \in DOMAIN svc.currentEntities
    /\ svc.currentEntities["agent"].position = "p1"
    /\ svc.currentEntities["agent"].rotation = "none"
    /\ svc.currentEntities["agent"].type = "player"

-----------------------------------------------------------------------------
(***************************************************************************)
(* Properties of the simulation loop, over SpecSim.                        *)
(***************************************************************************)

\* C35: a tick of the simulation loop in which world.tick throws, the
\* service staying connected, ends with the next timeout of the loop armed
\* and its handle held by the service; a tick in which world.tick returns
\* ends the same way.
C35_TickErrorKeepsLoopRunning ==
    [][ (/\ last'.op = "tickLoop" /\ last'.res \in TickOutcomes
         /\ svc.isConnectedState /\ svc'.isConnectedState
         /\ svc.tickIntervalId \in svc.simArmed)
           => /\ svc'.tickIntervalId # NoTimer
              /\ svc'.simArmed = {svc'.tickIntervalId}
              /\ svc'.simStopped = {}
              /\ svc'.world = svc.world ]_vars

\* world.tick threw in a tick of a connected service: the loop is armed.
C35_Witness ==
    /\ last.op = "tickLoop" /\ last.res = "throws"
    /\ svc.isConnectedState /\ svc.world # NoWorld
    /\ svc.tickIntervalId # NoTimer
    /\ svc.simArmed = {svc.tickIntervalId}

\* C36: no simulation loop that was stopped has a timeout armed, so none
\* calls world.tick again; while the service is not connected no timeout of
\* a simulation loop is armed at all, whether the connection ended between
\* two ticks or inside one; and at most one timeout is armed at any time,
\* the one whose handle the service holds.
C36_StoppedLoopStaysStopped ==
    /\ svc.simStopped = {}
    /\ ~svc.isConnectedState => svc.simArmed = {}
    /\ Cardinality(svc.simArmed) <= 1
    /\ svc.simArmed \subseteq {svc.tickIntervalId}

\* The world emitted 'disconnect' inside a tick: handleDisconnect stopped
\* the simulation and waits for the network, and the loop did not re-arm.
C36_Witness ==
    /\ last.op = "tickLoop" /\ last.res = "disconnected"
    /\ ~svc.isConnectedState /\ svc.world # NoWorld
    /\ svc.suspended.closing > 0
    /\ svc.tickIntervalId = NoTimer
    /\ svc.simArmed = {}

-----------------------------------------------------------------------------
(***************************************************************************)
(* Properties of the appearance polling, over SpecPoll.                    *)
(***************************************************************************)

\* C37: a run of the polling callback that resumes after its polling was
\* stopped does nothing: it makes no outbound call (behaviour manager,
\* name, upload) and leaves nameSet, appearanceSet, the name registry and
\* the timers of the service as they were.
C37_LatePollIsNoOp ==
    [][ (last'.op = "appearancePoll" /\ last'.res = "stale")
           => /\ svc'.lastPoll.calls = {}
              /\ svc'.nameSet = svc.nameSet
              /\ svc'.appearanceSet = svc.appearanceSet
              /\ svc'.playerNamesMap = svc.playerNamesMap
              /\ svc'.timers = svc.timers ]_vars

\* A run of the polling callback of an earlier session resumed while the
\* service was connected again: it started the behaviour manager, sent the
\* name and set nameSet.
C37_Witness ==
    /\ last.op = "appearancePoll" /\ last.res = "stale"
    /\ svc.lastPoll.stale
    /\ svc.isConnectedState /\ svc.world = 2
    /\ "behaviorManager.start" \in svc.lastPoll.calls
    /\ "network.send entityModified" \in svc.lastPoll.calls
    /\ svc.nameSet

\* C38: between operations, getIsNavigating() is true exactly when a
\* navigation target is set and exactly when the navigation interval is
\* armed, with one live interval at most; after stopNavigation, a refused
\* navigateTo, or a tick that stops, no interval is armed; and every tick
\* that fires finds its target set.
C38_FlagTargetIntervalAgree ==
    /\ NavigationConsistent(ctl)
    /\ (\/ last.op = "stopNavigation"
        \/ (last.op = "navigateTo" /\ NavigateToRefusal(pose) # NoReason)
        \/ (last.op = "navigationTick" /\ last.res \in {"error", "reached"}))
          => (ctl.navIntervals = 0 /\ ~ctl.navigationIntervalId
              /\ ~ctl.isNavigating)
    /\ last.op = "navigationTick"
          => (last.target # NoTarget /\ last.res # "skipped")

\* A tick reached its target and stopped the navigation: flag, target and
\* interval are cleared together.
C38_Witness ==
    /\ last.op = "navigationTick" /\ last.res = "reached"
    /\ ~ctl.isNavigating
    /\ ctl.navigationTarget = NoTarget
    /\ ctl.navIntervals = 0

-----------------------------------------------------------------------------
(***************************************************************************)
(* Properties of the keys a steering tick applies, over SpecKeys and       *)
(* SpecSteer.                                                              *)
(***************************************************************************)

\* The keys the steering tick of this step wanted: pose' is the pose the
\* tick read, ctl.navigationTarget the target it steered to.
TickDesired ==
    DesiredKeys(ForwardWorld(pose'.q), DirectionWorld(pose', ctl.navigationTarget))

SteeringStep == last'.op = "navigationTick" /\ last'.res = "steer"

\* C39 as stated: after every steering tick the down states of keyW, keyA
\* and keyD are the forward, left and right the tick wanted, and the
\* snapshot equals these down states, whatever a caller of setKey did to the
\* keys between two ticks.
C39_SteeringTickAppliesDesiredKeys ==
    [][ SteeringStep =>
          /\ ctl'.keys["keyW"].down = TickDesired.forward
          /\ ctl'.keys["keyA"].down = TickDesired.left
          /\ ctl'.keys["keyD"].down = TickDesired.right
          /\ ctl'.currentNavKeys.forward = ctl'.keys["keyW"].down
          /\ ctl'.currentNavKeys.left = ctl'.keys["keyA"].down
          /\ ctl'.currentNavKeys.right = ctl'.keys["keyD"].down ]_vars

\* C39 amended: after every steering tick the snapshot's forward, left and
\* right are what the tick wanted; a key whose wanted value differs from the
\* snapshot before the tick is down exactly when wanted; a key whose wanted
\* value equals the snapshot before the tick is not written and keeps the
\* down state it had, so it is as wanted only if it agreed with the snapshot
\* before the tick.
C39_SteeringTickWritesOnSnapshotChange ==
    [][ SteeringStep =>
          /\ ctl'.currentNavKeys.forward = TickDesired.forward
          /\ ctl'.currentNavKeys.left = TickDesired.left
          /\ ctl'.currentNavKeys.right = TickDesired.right
          /\ ctl'.keys["keyW"].down =
                IF TickDesired.forward # ctl.currentNavKeys.forward
                THEN TickDesired.forward ELSE ctl.keys["keyW"].down
          /\ ctl'.keys["keyA"].down =
                IF TickDesired.left # ctl.currentNavKeys.left
                THEN TickDesired.left ELSE ctl.keys["keyA"].down
          /\ ctl'.keys["keyD"].down =
                IF TickDesired.right # ctl.currentNavKeys.right
                THEN TickDesired.right ELSE ctl.keys["keyD"].down ]_vars

\* A steering tick that wanted forward has left keyW up: a caller of move
\* released the key after an earlier tick had pressed it, and the snapshot
\* still says forward.
C39_Witness ==
    /\ last.op = "navigationTick" /\ last.res = "steer"
    /\ ctl.currentNavKeys.forward
    /\ ~ctl.keys["keyW"].down

\* The horizontal vector to the right of forward vector f: f turned a
\* quarter clockwise, seen from above (forward x up; for f = (0, 0, -1) it
\* is (+1, 0, 0)).
RightOf(f) == << -f[2], f[1] >>

\* The angle between f and d is more than the deadband of PI/18.
BeyondDeadband(f, d) ==
    \/ Dot(f, d) < 0
    \/ Dot(f, d) * Dot(f, d) * COS2_FORWARD_DEN
          < COS2_FORWARD_NUM * LengthSq(f) * LengthSq(d)

\* C40: after a steering tick the turn key points toward the target: with
\* the target direction to the right of the forward vector by more than the
\* deadband, right (keyD) is set and left (keyA) is not; with it to the
\* left, left is set and right is not.
C40_TurnKeyPointsTowardTarget ==
    (last.op = "navigationTick" /\ last.res = "steer") =>
        LET f == ForwardWorld(pose.q)
            d == DirectionWorld(pose, last.target)
            side == Dot(RightOf(f), d)
        IN  /\ (side > 0 /\ BeyondDeadband(f, d))
                  => /\ ctl.currentNavKeys.right /\ ~ctl.currentNavKeys.left
                     /\ ctl.keys["keyD"].down /\ ~ctl.keys["keyA"].down
            /\ (side < 0 /\ BeyondDeadband(f, d))
                  => /\ ctl.currentNavKeys.left /\ ~ctl.currentNavKeys.right
                     /\ ctl.keys["keyA"].down /\ ~ctl.keys["keyD"].down

\* The embodiment at (-2, 0, 0) faces -Z and steers to (0, -6), which lies
\* to its right at about 18 degrees: the tick has pressed keyA, not keyD.
C40_Witness ==
    /\ last.op = "navigationTick" /\ last.res = "steer"
    /\ last.target = Point(0, -6)
    /\ pose.pos = <<-2, 0, 0>> /\ pose.q = IdentityQuat
    /\ Dot(RightOf(ForwardWorld(pose.q)), DirectionWorld(pose, last.target)) > 0
    /\ ctl.keys["keyA"].down /\ ~ctl.keys["keyD"].down
    /\ ctl.keys["keyW"].down

=============================================================================
